---- MODULE Spec2Model ----
(***************************************************************************)
(* The resumable fetch pipeline of polymarket_data:                        *)
(*   download_markets.py        paginated, sequential fetch loop           *)
(*   download_event_details.py  per-ID parallel fetch (thread pool)        *)
(*   download_price_history.py  per-ID parallel fetch (thread pool)        *)
(* with the write-to-temp-then-rename persistence they share and the       *)
(* resume predicates that read the output directory at the start of a run. *)
(*                                                                         *)
(* A directory is a function from the names of the files that exist to     *)
(* their content; a content is the sequence of chunks written so far, one  *)
(* chunk per write system call. Open file handles follow the file, not the *)
(* name (POSIX): a handle opened on the temporary name keeps writing into  *)
(* the same file after that file was renamed or unlinked.                  *)
(***************************************************************************)
EXTENDS Integers, Sequences, FiniteSets, TLC

\* ---------------------------------------------------------------- bounds
\* Write system calls needed to flush one complete file.
Chunks == 2
\* Runs of the script (the first run and its reruns).
MaxRuns == 2
\* Non-empty pages the upstream can hold; offsets range over 0..MaxPages pages.
MaxPages == 2
\* Length of the history lists drawn from every kind of entry.
MaxMixed == 2
\* Length of the history lists drawn from the entries of longer series.
MaxSeries == 5

\* ------------------------------------------------------ program constants
DEFAULT_LIMIT == 20
NUM_WORKERS == 8

limit == DEFAULT_LIMIT

EventIds == {"e1", "e2"}

\* market_*.json detail files: the stem split at "_" (download_price_history.py:71)
\* and the first entry of their clobTokenIds.
Market1 == [stem |-> <<"market", "1">>, token |-> "t1"]
MarketA1 == [stem |-> <<"market", "a", "1">>, token |-> "ta1"]
Market2 == [stem |-> <<"market", "2">>, token |-> "t2"]
MarketFiles == {Market1, MarketA1, Market2}

\* The detail directories a run is given: two files of different markets, or
\* two files whose stems end in the same segment, or fewer.
PriceInputs == SUBSET {Market1, Market2} \cup SUBSET {Market1, MarketA1}

VARIABLES
    prog,           \* which script runs: "markets", "events" or "prices"
    run,            \* number of the current run of the script
    dir,            \* the output directory: file name -> content
    pc,             \* position of the driver (main thread)
    tasks,          \* units of work: the put in progress / the submitted futures
    npages,         \* upstream: number of non-empty market pages
    up,             \* upstream: requested event id -> id field of the returned body
    input,          \* the extracted ID set (events) / market detail files (prices)
    current_offset, \* download_markets.py: current_offset
    start_offset,   \* the value get_starting_offset returned in this run
    requested,      \* offsets requested from the upstream in this run, in order
    halt,           \* terminal state of the paginated loop
    pending,        \* ids_to_fetch / pairs_to_fetch
    collected,      \* futures as_completed has already yielded to the driver
    success_count,  \* processed_count / success_count
    error_count,    \* download_event_details.py: error_count
    fetch_error_count, \* download_price_history.py: fetch_error_count
    save_error_count,  \* download_price_history.py: save_error_count
    fetch_errors,   \* fetch_errors / fetch_error_ids
    save_errors,    \* save_errors / save_error_ids
    calls,          \* network calls issued in this run
    prev_ok,        \* the previous run ended with every item a success
    prev_end,       \* how the previous run ended (the driver's last position)
    prev_errors,    \* the IDs the previous run's summary listed as errors
    response,       \* download_markets.py: what the upstream did at the latest request
    afile,          \* analyze_price_data.py: the price history file given to analyze_file
    aresult,        \* analyze_price_data.py: what analyze_file returned (or raised)
    cfg,            \* process_data.py: which of the input directories exist
    jsonl_files,    \* the market batch files in glob order, each a list of lines
    event_details,  \* the event details directory: event id -> its event_{id}.json
    work,           \* process_data.py: what the run has read, created and written so far
    config_errors,  \* process_data.py: the tasks that reported a missing directory
    file_idx,       \* create_market_and_event_tsvs: index of the batch file being read
    line_num,       \* create_market_and_event_tsvs: line_num of the next line
    market_tsv,     \* the rows written to market_tsv_output (the header first)
    event_tsv,      \* the rows written to event_tsv_output (the header first)
    processed_event_ids, \* create_market_and_event_tsvs: processed_event_ids
    loaded,         \* the event ids whose file json.load has read, in order
    timeseries,     \* create_timeseries_tsvs: market id -> rows of timeseries_{id}.tsv
    saved_markets,  \* save_individual_markets: the ids of the market_{id}.json written
    event_ids,      \* what the calls of extract_unique_event_ids returned, in order
    offsets,        \* what the calls of get_starting_offset returned, in order
    price_history_check_errors \* create_market_and_event_tsvs: price_history_check_errors

processVars == <<cfg, jsonl_files, event_details, work, config_errors, file_idx,
                 line_num, market_tsv, event_tsv, processed_event_ids, loaded,
                 timeseries, saved_markets, event_ids, offsets,
                 price_history_check_errors>>

vars == <<prog, run, dir, pc, tasks, npages, up, input, current_offset,
          start_offset, requested, halt, pending, collected, success_count,
          error_count, fetch_error_count, save_error_count, fetch_errors,
          save_errors, calls, prev_ok, prev_end, prev_errors, response, afile, aresult, processVars>>

marketVars == <<npages, current_offset, start_offset, requested, halt, response>>
poolVars == <<up, input, pending, collected, success_count, error_count,
              fetch_error_count, save_error_count, fetch_errors, save_errors>>

\* ------------------------------------------------------------ file store
\* A chunk position no write has filled (the gap a write past the end leaves).
Hole == IF prog = "markets" THEN -1 ELSE "hole"

Range(s) == {s[i] : i \in 1..Len(s)}

\* The content json.dump leaves once every chunk of payload t is flushed.
Complete(t) == [i \in 1..Chunks |-> t]

Exists(d, n) == n \in DOMAIN d

\* NonEmpty with >= 0 in place of > 0.
NonEmpty_AllowZero(d, n) == Len(d[n]) >= 0

\* st_size > 0
NonEmpty(d, n) == Len(d[n]) > 0

\* exists() and st_size > 0
ExistsNonEmpty(d, n) == Exists(d, n) /\ NonEmpty(d, n)

\* open(name, 'w'): create the file, or truncate the one that has the name.
OpenW(d, n) == [m \in DOMAIN d \cup {n} |-> IF m = n THEN <<>> ELSE d[m]]

\* One write system call of chunk t at position p (0-based) of content c.
WriteAt(c, p, t) ==
    [i \in 1..(IF Len(c) > p THEN Len(c) ELSE p + 1) |->
        IF i = p + 1 THEN t ELSE IF i <= Len(c) THEN c[i] ELSE Hole]

\* Rename that leaves the source name in place (a copy).
Rename_KeepsSource(d, src, dst) ==
    [m \in DOMAIN d \cup {dst} |-> IF m = dst THEN d[src] ELSE d[m]]

\* os.rename(src, dst): dst names the file src named; src no longer exists.
Rename(d, src, dst) ==
    [m \in (DOMAIN d \ {src}) \cup {dst} |-> IF m = dst THEN d[src] ELSE d[m]]

\* os.remove(name)
Remove(d, n) == [m \in DOMAIN d \ {n} |-> d[m]]

\* ------------------------------------------------------------ file names
\* markets_offset_{offset}_limit_{limit}.jsonl
BatchName(o, l) == [kind |-> "batch", key |-> o, limit |-> l, tmp |-> FALSE]

\* event_{id}.json / price_history_yes_{market_id}.json
IdName(k) == [kind |-> "id", key |-> k, limit |-> 0, tmp |-> FALSE]

\* final_filename.with_suffix('.jsonl.tmp') / with_suffix('.json.tmp')
WithTmpSuffix(n) == [n EXCEPT !.tmp = TRUE]

\* A file of the output directory that is no batch file (a log, a note).
OtherName == [kind |-> "other", key |-> 0, limit |-> 0, tmp |-> FALSE]

\* A batch file an earlier run with --limit 50 left: markets_offset_50_limit_50.jsonl
OtherBatch == BatchName(50, 50)

FinalName(k) == IF prog = "markets" THEN BatchName(k, limit) ELSE IdName(k)
TempName(k) == WithTmpSuffix(FinalName(k))

\* ------------------------------------------------- download_markets.py
\* pattern.match(filename.name) with r"markets_offset_(\d+)_limit_\d+\.jsonl":
\* re.match anchors the pattern at the start of the name only, so any limit and
\* anything after ".jsonl" is accepted.
PatternMatch(n) == n.kind = "batch"

\* max_saved_offset = -limit
InitialMax(l) == 0 - l

Max2(a, b) == IF a >= b THEN a ELSE b

\* ScanStep without the st_size test.
ScanStep_NoSizeCheck(d, n, max_saved) ==
    IF PatternMatch(n) THEN Max2(max_saved, n.key) ELSE max_saved

\* The body of the loop over output_dir.iterdir().
ScanStep(d, n, max_saved) ==
    IF PatternMatch(n)
    THEN IF NonEmpty(d, n) THEN Max2(max_saved, n.key) ELSE max_saved
    ELSE max_saved

RECURSIVE ScanDir(_, _, _)
ScanDir(d, names, max_saved) ==
    IF names = {} THEN max_saved
    ELSE LET n == CHOOSE x \in names : TRUE
         IN  ScanDir(d, names \ {n}, ScanStep(d, n, max_saved))

\* get_starting_offset that restarts at the highest saved offset.
get_starting_offset_NoAdvance(d, l) == ScanDir(d, DOMAIN d, InitialMax(l))

get_starting_offset(d, l) == ScanDir(d, DOMAIN d, InitialMax(l)) + l

\* The page the upstream holds at an offset: non-empty below npages * limit.
PageNonEmpty(o) == o < npages * limit

\* ------------------------------------------------------- units of work
NoTasks == <<>>

NewTask(item, key, tok) ==
    [item |-> item, key |-> key, tok |-> tok, pc |-> "open", pos |-> 0,
     h |-> "none", status |-> "none"]

\* What becomes of the other handles on the files of key k when the file named
\* by the temporary name moves (f maps a handle's target to its new target).
Retarget(ts, i, k, f) ==
    [j \in DOMAIN ts |->
        IF j # i /\ ts[j].key = k THEN [ts[j] EXCEPT !.h = f[@]] ELSE ts[j]]

AfterRename == [none |-> "none", tmp |-> "final", final |-> "orphan", orphan |-> "orphan"]
AfterRemove == [none |-> "none", tmp |-> "orphan", final |-> "final", orphan |-> "orphan"]

Running == pc \in {"saving", "running"}

\* The exceptions a step of a put can raise: an IOError (OSError), or another
\* one (json.dump on a string the utf-8 encoder rejects raises UnicodeEncodeError).
ExcKinds == {"io", "other"}

\* save_batch_jsonl removes the temporary file under "except IOError" only and
\* returns False at once under "except Exception"; save_event_details and
\* save_price_history fall through to the cleanup after either except clause.
CleansUp(e) == IF prog = "markets" THEN e = "io" ELSE TRUE

\* The put of task t after one of its steps raised e.
Raised(t, e) ==
    IF CleansUp(e)
    THEN [t EXCEPT !.pc = "cleanup", !.pos = 0, !.h = "none"]
    ELSE [t EXCEPT !.pc = "done", !.pos = 0, !.h = "none", !.status = "save_error"]

\* with open(temp_filename, 'w', encoding='utf-8') as f:
PutOpen(i) ==
    /\ Running /\ i \in DOMAIN tasks /\ tasks[i].pc = "open"
    /\ \/ /\ dir' = OpenW(dir, TempName(tasks[i].key))
          /\ tasks' = [tasks EXCEPT ![i].pc = "write", ![i].pos = 0, ![i].h = "tmp"]
       \/ /\ \E e \in ExcKinds : tasks' = [tasks EXCEPT ![i] = Raised(@, e)]
          /\ dir' = dir

\* The name the handle of task t writes through, if the file still has one.
HandleName(t) == IF t.h = "tmp" THEN TempName(t.key) ELSE FinalName(t.key)

\* json.dump(...) / f.write: one flushed chunk; the file is closed after the last.
PutWrite(i) ==
    /\ Running /\ i \in DOMAIN tasks /\ tasks[i].pc = "write"
    /\ \/ /\ dir' = IF tasks[i].h = "orphan" THEN dir
                    ELSE [dir EXCEPT ![HandleName(tasks[i])] =
                                WriteAt(@, tasks[i].pos, tasks[i].tok)]
          /\ tasks' = IF tasks[i].pos + 1 = Chunks
                      THEN [tasks EXCEPT ![i].pc = "rename", ![i].pos = 0, ![i].h = "none"]
                      ELSE [tasks EXCEPT ![i].pos = @ + 1]
       \/ /\ \E e \in ExcKinds : tasks' = [tasks EXCEPT ![i] = Raised(@, e)]
          /\ dir' = dir

\* os.rename(temp_filename, final_filename); return True
PutRename(i) ==
    /\ Running /\ i \in DOMAIN tasks /\ tasks[i].pc = "rename"
    /\ \/ /\ Exists(dir, TempName(tasks[i].key))
          /\ dir' = Rename(dir, TempName(tasks[i].key), FinalName(tasks[i].key))
          /\ tasks' = [Retarget(tasks, i, tasks[i].key, AfterRename)
                         EXCEPT ![i].pc = "done", ![i].status = "success"]
       \/ /\ tasks' = [tasks EXCEPT ![i] = Raised(@, "io")]
          /\ dir' = dir

\* if temp_filename.exists(): os.remove(temp_filename) (which may fail); return False
PutCleanup(i) ==
    /\ Running /\ i \in DOMAIN tasks /\ tasks[i].pc = "cleanup"
    /\ \/ /\ Exists(dir, TempName(tasks[i].key))
          /\ dir' = Remove(dir, TempName(tasks[i].key))
          /\ tasks' = [Retarget(tasks, i, tasks[i].key, AfterRemove)
                         EXCEPT ![i].pc = "done", ![i].status = "save_error"]
       \/ /\ tasks' = [tasks EXCEPT ![i].pc = "done", ![i].status = "save_error"]
          /\ dir' = dir

PutStep(i) == PutOpen(i) \/ PutWrite(i) \/ PutRename(i) \/ PutCleanup(i)

\* ------------------------------------------- the paginated fetch loop
\* current_offset = get_starting_offset(output_path, args.limit)
MStart ==
    /\ prog = "markets" /\ pc = "start"
    /\ current_offset' = get_starting_offset(dir, limit)
    /\ start_offset' = get_starting_offset(dir, limit)
    /\ pc' = "fetch"
    /\ UNCHANGED <<prog, run, dir, tasks, npages, requested, halt, calls, prev_ok, prev_end, prev_errors, response,
                   afile, aresult, processVars>>
    /\ UNCHANGED poolVars

\* What the loop does with the value fetch_markets_batch returned.
\*   "none"  : the fetch returned None (timeout, network error, status, bad JSON)
\*   "crash" : a body len() rejects (null, a number): TypeError leaves the script
\*   "page"  : the page the upstream holds at the offset
FetchOutcomes == {"none", "crash", "page"}

\* What the upstream can do at one request: no answer in time, a connection
\* error, a status of 400 or above, a 2xx body that is no JSON, or a 2xx body
\* that is JSON: null, a number, a string, an array, an object with the field
\* the client reads ("object") or without it ("badobject").
TransportFailures == {"timeout", "network", "status", "notjson"}
UpstreamOutcomes ==
    TransportFailures \cup {"null", "number", "text", "list", "object", "badobject"}

\* fetch_markets_batch: requests.get / raise_for_status / response.json() under
\* "except RequestException" and "except JSONDecodeError" return None; len(data)
\* in the log call raises TypeError for null and for a number, which neither
\* except clause catches; every other body is returned as it is, and the loop
\* handles it as the page of that offset (empty or not).
fetch_markets_batch(o) ==
    CASE o \in TransportFailures -> "none"
      [] o \in {"null", "number"} -> "crash"
      [] OTHER -> "page"

\* AfterSave without the break on a failed save.
AfterSave_NoBreak(ok) == "fetch"

\* The loop's next position after save_batch_jsonl returned ok.
AfterSave(ok) == IF ok THEN "fetch" ELSE "halted"

\* NextOffset that does not advance.
NextOffset_Stuck(o) == o

\* current_offset += args.limit
NextOffset(o) == o + limit

MFetch ==
    /\ prog = "markets" /\ pc = "fetch"
    /\ requested' = Append(requested, current_offset)
    /\ calls' = calls + 1
    /\ \E o \in UpstreamOutcomes :
       LET r == fetch_markets_batch(o) IN
         /\ response' = o
         /\ \/ /\ r = "none"
               /\ pc' = "halted" /\ halt' = "error" /\ tasks' = tasks
            \/ /\ r = "crash"
               /\ pc' = "halted" /\ halt' = "crash" /\ tasks' = tasks
            \/ /\ r = "page" /\ ~PageNonEmpty(current_offset)
               /\ pc' = "halted" /\ halt' = "done" /\ tasks' = tasks
            \/ /\ r = "page" /\ PageNonEmpty(current_offset)
               /\ pc' = "saving" /\ halt' = halt
               /\ tasks' = <<NewTask(current_offset, current_offset, current_offset)>>
    /\ UNCHANGED <<prog, run, dir, npages, current_offset, start_offset, prev_ok,
                   prev_end, prev_errors, afile, aresult, processVars>>
    /\ UNCHANGED poolVars

\* save_successful = save_batch_jsonl(...); break or current_offset += args.limit
MSaved ==
    /\ prog = "markets" /\ pc = "saving" /\ tasks[1].pc = "done"
    /\ pc' = AfterSave(tasks[1].status = "success")
    /\ halt' = IF tasks[1].status = "success" THEN halt ELSE "saveError"
    /\ current_offset' = IF tasks[1].status = "success"
                         THEN NextOffset(current_offset) ELSE current_offset
    /\ tasks' = NoTasks
    /\ UNCHANGED <<prog, run, dir, npages, start_offset, requested, calls, prev_ok, prev_end, prev_errors, response,
                   afile, aresult, processVars>>
    /\ UNCHANGED poolVars

MPut ==
    /\ prog = "markets" /\ PutStep(1)
    /\ UNCHANGED <<prog, run, pc, npages, current_offset, start_offset, requested,
                   halt, calls, prev_ok, prev_end, prev_errors, response,
                   afile, aresult, processVars>>
    /\ UNCHANGED poolVars

\* ------------------------------------------- the per-ID parallel fetchers
Last(s) == s[Len(s)]

\* market_id = file_path.stem.split('_')[-1]
MarketIdOf(f) == Last(f.stem)

\* The (market_id, first_clob_token_id) pair extract_market_and_token_ids appends.
PairOf(f) == [id |-> MarketIdOf(f), token |-> f.token]

\* The work items of the input, before any order: event ids, or pairs.
ItemsOf(in) == IF prog = "events" THEN in ELSE {PairOf(f) : f \in in}

\* The id a work item is tracked and reported under.
ItemId(x) == IF prog = "events" THEN x ELSE x.id

\* The orders a set can be iterated in (set iteration, glob order).
Orders(S) == {s \in [1..Cardinality(S) -> S] : \A x \in S : \E i \in DOMAIN s : s[i] = x}

\* AlreadyDownloaded without the st_size test.
AlreadyDownloaded_ExistsOnly(d, id) == Exists(d, IdName(id))

\* phase 2: event_file_path.exists() and event_file_path.stat().st_size > 0
AlreadyDownloaded(d, id) == ExistsNonEmpty(d, IdName(id))

\* phase 2: the loop that appends every item not yet downloaded
RECURSIVE Phase2Filter(_, _)
Phase2Filter(items, d) ==
    IF items = <<>> THEN <<>>
    ELSE IF AlreadyDownloaded(d, ItemId(Head(items)))
         THEN Phase2Filter(Tail(items), d)
         ELSE <<Head(items)>> \o Phase2Filter(Tail(items), d)

\* executor.submit(...) for every pending item: a future waiting for a thread
Submitted(item) ==
    [item |-> item, key |-> ItemId(item), tok |-> ItemId(item), pc |-> "queued",
     pos |-> 0, h |-> "none", status |-> "none"]

\* phases 1 and 2, and the submission of phase 3
PStart ==
    /\ prog \in {"events", "prices"} /\ pc = "start"
    /\ \E files \in Orders(input) :
         LET items == [i \in DOMAIN files |->
                          IF prog = "events" THEN files[i] ELSE PairOf(files[i])]
             todo == Phase2Filter(items, dir)
         IN  /\ pending' = todo
             /\ tasks' = [i \in DOMAIN todo |-> Submitted(todo[i])]
             /\ pc' = IF todo = <<>> THEN "exit" ELSE "running"
    /\ UNCHANGED <<prog, run, dir, npages, up, input, current_offset, start_offset,
                   requested, halt, collected, success_count, error_count,
                   fetch_error_count, save_error_count, fetch_errors, save_errors,
                   calls, prev_ok, prev_end, prev_errors, response,
                   afile, aresult, processVars>>

\* Threads of the pool that run a unit of work.
Busy == {j \in DOMAIN tasks : tasks[j].pc \notin {"queued", "done"}}

\* The file a fetched body is saved under, and the payload written:
\* save_event_details names the file after event_data['id'], the id field of the
\* body; save_price_history after the market_id of the work item.
SaveKey(item) == IF prog = "events" THEN up[item] ELSE item.id
SaveTok(item) == IF prog = "events" THEN up[item] ELSE item.token

\* fetch_event_details: every exception is caught and gives None; any JSON body
\* is returned as it is (null is None itself).
fetch_event_details(o) ==
    IF o \in TransportFailures \cup {"null"} THEN "none" ELSE "data"

\* The 404 answer: one of the statuses of 400 and above, for which
\* raise_for_status raises HTTPError, a RequestException.
NotFound == "status"

\* fetch_price_history that takes the answer of a 404 for data.
fetch_price_history_NotFoundIsData(o) ==
    IF o \in {"object", NotFound} THEN "data" ELSE "none"

\* fetch_price_history: every exception is caught and gives None, and so does
\* a body that is no object with a history list.
fetch_price_history(o) == IF o = "object" THEN "data" ELSE "none"

\* The precheck of save_event_details: a dict with an id.
SaveAccepts(o) == o = "object"

\* What the unit of work of a worker makes of an upstream outcome.
\*   "none"   : the fetch returned None
\*   "reject" : a body save_event_details refuses (no dict, or a dict without id)
\*   "body"   : the body the upstream holds for the item
WorkerFetch(o) ==
    IF prog = "events"
    THEN IF fetch_event_details(o) = "none" THEN "none"
         ELSE IF SaveAccepts(o) THEN "body" ELSE "reject"
    ELSE IF fetch_price_history(o) = "none" THEN "none" ELSE "body"

\* A thread takes a future and calls fetch_event_details / fetch_price_history;
\* "raise" is an exception that leaves the unit of work.
TaskFetch(i) ==
    /\ pc = "running" /\ i \in DOMAIN tasks /\ tasks[i].pc = "queued"
    /\ Cardinality(Busy) < NUM_WORKERS
    /\ calls' = calls + 1
    /\ \E r \in {"raise"} \cup {WorkerFetch(o) : o \in UpstreamOutcomes} :
         \/ /\ r = "none"
            /\ tasks' = [tasks EXCEPT ![i].pc = "done", ![i].status = "fetch_error"]
         \/ /\ r = "raise"
            /\ tasks' = [tasks EXCEPT ![i].pc = "done", ![i].status = "raised"]
         \/ /\ r = "reject"
            /\ tasks' = [tasks EXCEPT ![i].pc = "done", ![i].status = "save_error"]
         \/ /\ r = "body"
            /\ tasks' = [tasks EXCEPT ![i].pc = "open",
                                      ![i].key = SaveKey(tasks[i].item),
                                      ![i].tok = SaveTok(tasks[i].item)]
    /\ UNCHANGED <<prog, run, dir, pc, npages, current_offset, start_offset,
                   requested, halt, prev_ok, prev_end, prev_errors, response,
                   afile, aresult, processVars>>
    /\ UNCHANGED poolVars

PPut(i) ==
    /\ prog \in {"events", "prices"} /\ PutStep(i)
    /\ UNCHANGED <<prog, run, pc, npages, current_offset, start_offset, requested,
                   halt, calls, prev_ok, prev_end, prev_errors, response,
                   afile, aresult, processVars>>
    /\ UNCHANGED poolVars

\* Bucket without the except clause: a raised exception is recorded nowhere.
Bucket_RaiseLost(status) ==
    CASE status = "success" -> "success"
      [] status = "fetch_error" -> "fetch"
      [] status = "save_error" -> "save"
      [] status = "raised" -> "lost"

\* The branch of the as_completed loop a finished future takes: the if/elif
\* chain on the returned status, or the except clause when result() raises.
Bucket(status) ==
    CASE status = "success" -> "success"
      [] status = "fetch_error" -> "fetch"
      [] status = "save_error" -> "save"
      [] status = "raised" -> "fetch"

\* One iteration of "for future in concurrent.futures.as_completed(...)".
Collect(i) ==
    /\ pc = "running" /\ i \in DOMAIN tasks \ collected /\ tasks[i].pc = "done"
    /\ collected' = collected \cup {i}
    /\ LET b == Bucket(tasks[i].status)
           id == ItemId(tasks[i].item)
       IN  /\ success_count' = IF b = "success" THEN success_count + 1 ELSE success_count
           /\ error_count' = IF prog = "events" /\ b \in {"fetch", "save"}
                             THEN error_count + 1 ELSE error_count
           /\ fetch_error_count' = IF prog = "prices" /\ b = "fetch"
                                   THEN fetch_error_count + 1 ELSE fetch_error_count
           /\ save_error_count' = IF prog = "prices" /\ b = "save"
                                  THEN save_error_count + 1 ELSE save_error_count
           /\ fetch_errors' = IF b = "fetch" THEN Append(fetch_errors, id) ELSE fetch_errors
           /\ save_errors' = IF b = "save" THEN Append(save_errors, id) ELSE save_errors
    /\ UNCHANGED <<prog, run, dir, pc, tasks, npages, up, input, current_offset,
                   start_offset, requested, halt, pending, calls, prev_ok, prev_end, prev_errors, response,
                   afile, aresult, processVars>>

\* Drained as soon as one future was yielded.
Drained_First == collected # {}

\* as_completed is exhausted once it has yielded every future of future_to_id.
Drained == collected = DOMAIN tasks

\* The with-block of the executor is left and the summary is logged.
Summary ==
    /\ pc = "running" /\ Drained
    /\ pc' = "summary"
    /\ UNCHANGED <<prog, run, dir, tasks, npages, current_offset, start_offset,
                   requested, halt, calls, prev_ok, prev_end, prev_errors, response,
                   afile, aresult, processVars>>
    /\ UNCHANGED poolVars

\* ------------------------------------------------------ kill and rerun
\* The process is killed: every thread stops where it is, the files stay.
Kill ==
    /\ pc \in {"fetch", "saving", "running"}
    /\ pc' = "killed"
    /\ tasks' = NoTasks
    /\ UNCHANGED <<prog, run, dir, npages, current_offset, start_offset, requested,
                   halt, calls, prev_ok, prev_end, prev_errors, response,
                   afile, aresult, processVars>>
    /\ UNCHANGED poolVars

Over == pc \in {"halted", "killed", "summary", "exit"}

\* Every item of the run that is over ended in success.
AllSuccess ==
    IF prog = "markets" THEN pc = "halted" /\ halt = "done"
    ELSE pc \in {"summary", "exit"} /\ \A i \in DOMAIN tasks : tasks[i].status = "success"

\* The script is started again on the directory the last run left.
Rerun ==
    /\ Over /\ run < MaxRuns
    /\ run' = run + 1
    /\ pc' = "start"
    /\ prev_ok' = AllSuccess
    /\ prev_end' = pc
    /\ prev_errors' = Range(fetch_errors) \cup Range(save_errors)
    /\ tasks' = NoTasks
    /\ requested' = <<>> /\ halt' = "none" /\ calls' = 0
    /\ current_offset' = 0 /\ start_offset' = 0
    /\ pending' = <<>> /\ collected' = {}
    /\ success_count' = 0 /\ error_count' = 0
    /\ fetch_error_count' = 0 /\ save_error_count' = 0
    /\ fetch_errors' = <<>> /\ save_errors' = <<>>
    /\ response' = "none"
    /\ UNCHANGED <<prog, dir, npages, up, input, afile, aresult, processVars>>

\* ------------------------------------------------- analyze_price_data.py
\* No file was given and nothing was returned (the download scripts).
NoFile == [kind |-> "none", history |-> <<>>]
NoResult == <<>>

\* JSON values as json.load gives them, by what float() and int() make of them:
\* a number, a string holding a decimal numeral, another string, null, and a
\* number beyond the float range (1e999), which json.load reads as inf.
Num(v) == [k |-> "num", v |-> v]
Str(v) == [k |-> "str", v |-> v]
Text == [k |-> "text", v |-> 0]
Null == [k |-> "null", v |-> 0]
Inf == [k |-> "inf", v |-> 0]
\* The key is not in the dict.
Absent == [k |-> "absent", v |-> 0]

\* An entry of the history list: a dict with its "p" and "t", or no dict.
Point(p, t) == [dict |-> TRUE, p |-> p, t |-> t]
NonDict == [dict |-> FALSE, p |-> Absent, t |-> Absent]

\* float(point["p"]): the exception raised, or "none".
FloatExc(x) ==
    CASE x.k = "text" -> "ValueError"
      [] x.k = "null" -> "TypeError"
      [] OTHER -> "none"

\* int(point["t"]): the exception raised, or "none"; int(inf) raises OverflowError.
IntExc(x) ==
    CASE x.k = "text" -> "ValueError"
      [] x.k = "null" -> "TypeError"
      [] x.k = "inf" -> "OverflowError"
      [] OTHER -> "none"

\* except (ValueError, TypeError)
CaughtInLoop == {"ValueError", "TypeError"}

\* isinstance(point, dict) and "p" in point and "t" in point
HasFields(pt) == pt.dict /\ pt.p # Absent /\ pt.t # Absent

\* The state of the loop over history: the two lists, malformed_points_count and
\* the exception that left the loop, if any.
LoopStart == [prices |-> <<>>, timestamps |-> <<>>, malformed |-> 0, exc |-> "none"]

\* One iteration of "for point in history".
LoopStep(st, pt) ==
    IF st.exc # "none" THEN st
    ELSE IF ~HasFields(pt) THEN [st EXCEPT !.malformed = @ + 1]
    ELSE IF FloatExc(pt.p) # "none"
         THEN IF FloatExc(pt.p) \in CaughtInLoop
              THEN [st EXCEPT !.malformed = @ + 1]
              ELSE [st EXCEPT !.exc = FloatExc(pt.p)]
    ELSE IF IntExc(pt.t) # "none"
         THEN IF IntExc(pt.t) \in CaughtInLoop
              THEN [st EXCEPT !.malformed = @ + 1]
              ELSE [st EXCEPT !.exc = IntExc(pt.t)]
    ELSE [st EXCEPT !.prices = Append(@, pt.p.v), !.timestamps = Append(@, pt.t.v)]

RECURSIVE ParseLoop(_, _)
ParseLoop(st, history) ==
    IF history = <<>> THEN st
    ELSE ParseLoop(LoopStep(st, Head(history)), Tail(history))

\* --- statistics
\* if results["num_points"] < 2
MinForStdev == 2
\* if d != 60
CanonicalDelta == 60
\* results["num_points"] < 5
FewPointsLimit == 5

\* An optional value: <<>> is None (or the empty dict), <<x>> is x.
None == <<>>
Some(x) == <<x>>

\* An exact rational num/den, den > 0.
Frac(n, d) == [num |-> n, den |-> d]

RECURSIVE SumSeq(_)
SumSeq(s) == IF s = <<>> THEN 0 ELSE Head(s) + SumSeq(Tail(s))

RECURSIVE SumSquares(_)
SumSquares(s) == IF s = <<>> THEN 0 ELSE Head(s) * Head(s) + SumSquares(Tail(s))

MinSeq(s) == CHOOSE m \in Range(s) : \A x \in Range(s) : m <= x
MaxSeq(s) == CHOOSE m \in Range(s) : \A x \in Range(s) : x <= m

\* statistics.mean(data): the exact mean.
Mean(s) == Frac(SumSeq(s), Len(s))

\* statistics.stdev(data): the square root of the sample variance
\* (n * sum(x^2) - sum(x)^2) / (n * (n - 1)), kept as its radicand.
Stdev(s) ==
    [sqrt_of |-> Frac(Len(s) * SumSquares(s) - SumSeq(s) * SumSeq(s),
                      Len(s) * (Len(s) - 1))]

\* results["std_dev_price"] == 0
IsZero(sd) == sd.sqrt_of.num = 0

\* datetime.fromtimestamp(ts).isoformat()
IsoFormat(ts) == [iso |-> ts]

\* time_deltas: timestamps[i+1] - timestamps[i]
TimeDeltas(ts) == [i \in 1..(Len(ts) - 1) |-> ts[i + 1] - ts[i]]

RECURSIVE InsertSorted(_, _)
InsertSorted(s, x) ==
    IF s = <<>> THEN <<x>>
    ELSE IF x <= Head(s) THEN <<x>> \o s
    ELSE <<Head(s)>> \o InsertSorted(Tail(s), x)

RECURSIVE Sorted(_)
Sorted(s) == IF s = <<>> THEN <<>> ELSE InsertSorted(Sorted(Tail(s)), Head(s))

\* statistics.median(data): the middle value, or the mean of the two middle ones.
Median(s) ==
    LET o == Sorted(s)
        n == Len(s)
    IN  IF n % 2 = 1 THEN Frac(o[(n + 1) \div 2], 1)
        ELSE Frac(o[n \div 2] + o[n \div 2 + 1], 2)

\* round(statistics.mean(time_deltas), 2), in hundredths (to the nearest).
RoundedMean(s) == (200 * SumSeq(s) + Len(s)) \div (2 * Len(s))

\* delta_counts restricted to d != 60
Non60Deltas(deltas) ==
    [d \in Range(deltas) \ {CanonicalDelta} |->
        Cardinality({i \in DOMAIN deltas : deltas[i] = d})]

\* results["time_delta_stats"] for a non-empty list of deltas.
DeltaStats(deltas) ==
    [min_delta_seconds |-> MinSeq(deltas),
     max_delta_seconds |-> MaxSeq(deltas),
     mean_delta_seconds |-> RoundedMean(deltas),
     median_delta_seconds |-> Median(deltas),
     num_deltas |-> Len(deltas),
     non_60_second_deltas |->
         IF DOMAIN Non60Deltas(deltas) = {} THEN None ELSE Some(Non60Deltas(deltas))]

\* --- analyze_file
\* An issue string: which message it is and the number it carries (0 if none).
Issue(msg, n) == [msg |-> msg, n |-> n]

\* results as initialised; exc names the exception that left analyze_file, in
\* which case nothing is returned.
EmptyResults ==
    [exc |-> "none", num_points |-> 0, mean_price |-> None, std_dev_price |-> None,
     min_time |-> None, max_time |-> None, time_delta_stats |-> None, issues |-> <<>>]

\* The issues appended once the loop is over, in the order of the code.
MalformedIssue(k) == IF k > 0 THEN <<Issue("malformed", k)>> ELSE <<>>

StdevIssue(prices) ==
    IF Len(prices) < MinForStdev THEN <<Issue("not_enough_points", 0)>>
    ELSE IF IsZero(Stdev(prices)) THEN <<Issue("constant_price", 0)>>
    ELSE <<>>

FewPointsIssue(prices) ==
    IF prices # <<>> /\ Len(prices) < FewPointsLimit
    THEN <<Issue("very_few", Len(prices))>> ELSE <<>>

\* analyze_file after the loop over history ended with state st.
Summarise(st) ==
    IF st.prices = <<>>
    THEN [EmptyResults EXCEPT
            !.issues = MalformedIssue(st.malformed) \o <<Issue("no_valid_points", 0)>>]
    ELSE [exc |-> "none",
          num_points |-> Len(st.prices),
          mean_price |-> Some(Mean(st.prices)),
          std_dev_price |-> IF Len(st.prices) < MinForStdev THEN None
                            ELSE Some(Stdev(st.prices)),
          min_time |-> Some(IsoFormat(MinSeq(st.timestamps))),
          max_time |-> Some(IsoFormat(MaxSeq(st.timestamps))),
          time_delta_stats |-> IF Len(st.timestamps) > 1
                               THEN Some(DeltaStats(TimeDeltas(st.timestamps)))
                               ELSE None,
          issues |-> MalformedIssue(st.malformed) \o StdevIssue(st.prices)
                       \o FewPointsIssue(st.prices)]

\* analyze_file(file_path) for a file f:
\*   "missing"   : there is no such file
\*   "notjson"   : the content is no JSON
\*   "notobject" : JSON whose top level is no object (data.get raises AttributeError)
\*   "nohistory" : an object without "history", or whose history is no list
\*   "object"    : an object with the list f.history under "history"
analyze_file(f) ==
    CASE f.kind = "missing" -> [EmptyResults EXCEPT !.issues = <<Issue("file_not_found", 0)>>]
      [] f.kind = "notjson" -> [EmptyResults EXCEPT !.issues = <<Issue("invalid_json", 0)>>]
      [] f.kind = "notobject" -> [EmptyResults EXCEPT !.exc = "AttributeError"]
      [] f.kind = "nohistory" -> [EmptyResults EXCEPT !.issues = <<Issue("no_history", 0)>>]
      [] f.kind = "object" /\ f.history = <<>> ->
            [EmptyResults EXCEPT !.issues = <<Issue("history_empty", 0)>>]
      [] OTHER ->
            LET st == ParseLoop(LoopStart, f.history)
            IN  IF st.exc # "none" THEN [EmptyResults EXCEPT !.exc = st.exc]
                ELSE Summarise(st)

\* pool.map(analyze_file, json_files): one file is analysed.
Analyze ==
    /\ prog = "analyze" /\ pc = "start"
    /\ aresult' = Some(analyze_file(afile))
    /\ pc' = "done"
    /\ UNCHANGED <<prog, run, dir, tasks, npages, current_offset, start_offset,
                   requested, halt, calls, prev_ok, prev_end, prev_errors, response,
                   afile, processVars>>
    /\ UNCHANGED poolVars

\* ----------------------------------------------------------- process_data.py
MARKET_PREFIX == "market_"
EVENT_PREFIX == "event_"

\* The characters sanitize_value replaces, and two it leaves alone.
Tab == "\t"
Newline == "\n"
Return == "\r"
Space == " "
Letter == "a"

\* A JSON string, as the sequence of its characters.
Chars(s) == [k |-> "chars", v |-> s]

\* str(value), as a sequence of characters; numbers are single digits here.
PyStr(x) ==
    CASE x.k = "chars" -> x.v
      [] x.k \in {"num", "str"} -> <<ToString(x.v)>>
      [] x.k = "null" -> <<"N", "o", "n", "e">>
      [] x.k = "bool" -> IF x.v = 1 THEN <<"T", "r", "u", "e">>
                         ELSE <<"F", "a", "l", "s", "e">>
      [] OTHER -> <<Letter>>

\* s.replace(old, ' ') for a single character old.
Replace(s, old) == [i \in DOMAIN s |-> IF s[i] = old THEN Space ELSE s[i]]

\* sanitize_value that forgets the carriage return.
sanitize_value_KeepsReturn(value) ==
    IF value.k = "null" THEN <<>>
    ELSE Replace(Replace(PyStr(value), Tab), Newline)

\* sanitize_value(value): '' for None, else str(value) with every tab, newline
\* and carriage return replaced by a space.
sanitize_value(value) ==
    IF value.k = "null" THEN <<>>
    ELSE Replace(Replace(Replace(PyStr(value), Tab), Newline), Return)

\* True and False, as str() renders them.
Bool(b) == [k |-> "bool", v |-> IF b THEN 1 ELSE 0]

\* dict.get(key, ''): the default for a key the record does not have.
GetOrEmpty(x) == IF x.k = "absent" THEN Chars(<<>>) ELSE x

\* --- the lines of a market batch file
\* An event stub in the "events" list of a market: a dict with its "id", or no dict.
Stub(id) == [dict |-> TRUE, id |-> id]
NonDictStub == [dict |-> FALSE, id |-> Absent]

\* The "events" field: a list of stubs; Absent and Text (no list) are the others.
EventList(stubs) == [k |-> "list", v |-> stubs]

\* json.loads(line.strip()):
\*   "notjson"   : raises JSONDecodeError (an unparsable or blank line)
\*   "falsy"     : a JSON value that is no dict and false in a condition (null, 0, [])
\*   "nonobject" : any other JSON value that is no dict ([1], 5, "x")
\*   "object"    : a dict, with the three fields the model follows ({} has none)
NotJsonLine == [kind |-> "notjson", id |-> Absent, question |-> Absent, events |-> Absent]
FalsyLine == [kind |-> "falsy", id |-> Absent, question |-> Absent, events |-> Absent]
NonObjectLine == [kind |-> "nonobject", id |-> Absent, question |-> Absent, events |-> Absent]
MarketLine(id, question, events) ==
    [kind |-> "object", id |-> id, question |-> question, events |-> events]

\* The columns the model follows of the 69 of market_headers and the 42 of
\* event_headers; the two extra market columns are all there.
market_headers == <<"id", "question">>
market_headers_with_ids ==
    [i \in DOMAIN market_headers |-> <<MARKET_PREFIX, market_headers[i]>>]
        \o <<<<MARKET_PREFIX, "event_ids">>,
             <<MARKET_PREFIX, "downloaded_pricehistory_nonempty">>>>
event_headers == <<"id", "title">>
event_headers_prefixed ==
    [i \in DOMAIN event_headers |-> <<EVENT_PREFIX, event_headers[i]>>]

\* --- the directories process_data.py reads
\* The kinds of event_{id}.json: no such file, no JSON, a JSON value that is
\* false in a condition ({}), a non-empty object, another value that is no
\* dict ([1]).
EventKinds == {"missing", "notjson", "falsy", "object", "nonobject"}

\* The ids of the event files the directory can hold.
EventFileIds == {<<"1">>, <<"2">>}

\* event_file.is_file() and what json.load makes of the file.
EventKind(id) == IF id \in DOMAIN event_details THEN event_details[id] ELSE "missing"

\* The event a non-empty object file holds: its id and a title with a tab.
EventBody(id) == [id |-> Chars(id), title |-> Chars(<<Letter, Tab, Letter>>)]

\* The price history directory: a history with a malformed entry and an entry
\* whose fields hold the three characters, a file that holds a JSON list, a
\* zero-length file, a file that is no JSON, an object whose "history" is
\* missing or no list, and an object with an empty history list; markets 0 and
\* 3 have no file.
price_history ==
    (<<"1">> :> [kind |-> "object",
                 history |-> <<Point(Num(1), Num(0)), NonDict,
                               Point(Chars(<<Tab, Letter, Return>>), Chars(<<Newline>>))>>])
      @@ (<<"2">> :> [kind |-> "notobject", history |-> <<>>])
      @@ (<<"4">> :> [kind |-> "zero", history |-> <<>>])
      @@ (<<"5">> :> [kind |-> "notjson", history |-> <<>>])
      @@ (<<"6">> :> [kind |-> "badobject", history |-> <<>>])
      @@ (<<"7">> :> [kind |-> "object", history |-> <<>>])

\* price_hist_file.exists() and what json.load makes of the file.
PriceKind(market_id) ==
    IF market_id \in DOMAIN price_history THEN price_history[market_id].kind ELSE "missing"

\* The check of the price file raises: json.load rejects a zero-length file and
\* a file that is no JSON (JSONDecodeError), price_data.get does not exist on a
\* value that is no object (AttributeError, under "except Exception").
price_check_raises(market_id) ==
    /\ market_id # <<>>
    /\ PriceKind(market_id) \in {"zero", "notjson", "notobject"}

\* has_non_empty_history that takes every object for a non-empty history.
has_non_empty_history_AnyObject(market_id) ==
    /\ market_id # <<>>
    /\ cfg.price_history_dir
    /\ market_id \in DOMAIN price_history
    /\ price_history[market_id].kind = "object"

\* has_non_empty_history: market_id is not '' and price_history_yes_{market_id}.json
\* holds an object whose history is a non-empty list; every exception is caught.
has_non_empty_history(market_id) ==
    /\ market_id # <<>>
    /\ cfg.price_history_dir
    /\ market_id \in DOMAIN price_history
    /\ price_history[market_id].kind = "object"
    /\ price_history[market_id].history # <<>>

\* --- Task 1: save_individual_markets
\* if not market_id: None, '' and 0 are skipped, as is a missing id.
TruthyId(x) ==
    CASE x.k \in {"absent", "null"} -> FALSE
      [] x.k \in {"num", "str"} -> x.v # 0
      [] x.k = "chars" -> x.v # <<>>
      [] OTHER -> TRUE

\* The ids of the market_{id}.json files written: one for every line that
\* parses to a dict with an id; everything else is caught line by line.
save_individual_markets(files) ==
    UNION {{PyStr(files[i][j].id) :
                j \in {k \in DOMAIN files[i] :
                          /\ files[i][k].kind = "object"
                          /\ TruthyId(files[i][k].id)}} : i \in DOMAIN files}

\* --- Task 2: create_market_and_event_tsvs
\* current_event_ids: str(event['id']) of every dict with an "id" in a
\* list-valued "events"; [] for a line that is false in a condition.
RECURSIVE StubIds(_)
StubIds(stubs) ==
    IF stubs = <<>> THEN <<>>
    ELSE IF Head(stubs).dict /\ Head(stubs).id.k # "absent"
         THEN <<PyStr(Head(stubs).id)>> \o StubIds(Tail(stubs))
         ELSE StubIds(Tail(stubs))

current_event_ids(line) ==
    IF line.kind = "object" /\ line.events.k = "list" THEN StubIds(line.events.v) ELSE <<>>

\* ",".join(ids)
RECURSIVE CommaJoin(_)
CommaJoin(ids) ==
    IF ids = <<>> THEN <<>>
    ELSE IF Len(ids) = 1 THEN Head(ids)
    ELSE Head(ids) \o <<",">> \o CommaJoin(Tail(ids))

\* market_id = str(market_data.get('id', '')) if market_data else ''
market_id_of(line) == IF line.kind = "object" THEN PyStr(GetOrEmpty(line.id)) ELSE <<>>

\* The value of one column of the market row, before sanitize_value.
MarketValue(line, header) ==
    IF header = <<MARKET_PREFIX, "event_ids">> THEN Chars(CommaJoin(current_event_ids(line)))
    ELSE IF header = <<MARKET_PREFIX, "downloaded_pricehistory_nonempty">>
         THEN Chars(PyStr(Bool(has_non_empty_history(market_id_of(line)))))
    ELSE IF line.kind = "object" THEN GetOrEmpty(line[header[2]])
    ELSE Chars(<<>>)

\* market_row_values
market_row_values(line) ==
    [i \in DOMAIN market_headers_with_ids |->
        sanitize_value(MarketValue(line, market_headers_with_ids[i]))]

\* event_row_values for the event a file holds.
event_row_values(body) ==
    [i \in DOMAIN event_headers_prefixed |->
        sanitize_value(GetOrEmpty(body[event_headers_prefixed[i][2]]))]

\* The loop "for event_id in current_event_ids" over what it changes; exc is
\* the exception that left it, if any.
EventLoopStart ==
    [rows |-> event_tsv, processed |-> processed_event_ids, loaded |-> loaded,
     exc |-> "none"]

EventStep(st, id) ==
    IF st.exc # "none" \/ id \in st.processed THEN st
    ELSE CASE EventKind(id) = "missing" ->
                [st EXCEPT !.processed = @ \cup {id}]
           [] EventKind(id) \in {"notjson", "falsy"} ->
                [st EXCEPT !.loaded = Append(@, id), !.processed = @ \cup {id}]
           [] EventKind(id) = "object" ->
                [st EXCEPT !.loaded = Append(@, id),
                           !.rows = Append(@, event_row_values(EventBody(id))),
                           !.processed = @ \cup {id}]
           [] OTHER ->
                \* event_data.get on a value that is no dict
                [st EXCEPT !.loaded = Append(@, id), !.exc = "AttributeError"]

RECURSIVE EventLoop(_, _)
EventLoop(st, ids) ==
    IF ids = <<>> THEN st ELSE EventLoop(EventStep(st, Head(ids)), Tail(ids))

\* The first file from index i on that has a line, or one past the last file.
RECURSIVE SkipEmpty(_, _)
SkipEmpty(files, i) ==
    IF i > Len(files) \/ files[i] # <<>> THEN i ELSE SkipEmpty(files, i + 1)

\* The position after the line at (i, n) was handled; an exception that is not
\* caught inside the loop over the lines ends the file.
AfterLine(files, i, n, raised) ==
    IF raised \/ n = Len(files[i]) THEN <<SkipEmpty(files, i + 1), 1>> ELSE <<i, n + 1>>

\* The directories Task 2 requires.
Task2Dirs == cfg.market_data_dir /\ cfg.event_details_dir /\ cfg.price_history_dir

\* --- Task 3: create_timeseries_tsvs
\* The rows written for one history list: the header, then one row for every
\* dict with 't' and 'p'.
RECURSIVE HistoryRows(_)
HistoryRows(history) ==
    IF history = <<>> THEN <<>>
    ELSE IF HasFields(Head(history))
         THEN <<<<sanitize_value(Head(history).t), sanitize_value(Head(history).p)>>>>
                  \o HistoryRows(Tail(history))
         ELSE HistoryRows(Tail(history))

\* timeseries_{market_id}.tsv for every file whose history is a non-empty list.
create_timeseries_tsvs(d) ==
    [id \in {k \in DOMAIN d : d[k].kind = "object" /\ d[k].history # <<>>} |->
        <<<<<<"timestamp">>, <<"price">>>>>> \o HistoryRows(d[id].history)]

\* --- the run of process_data.py
\* What a run leaves alone: the state of the download and analysis scripts.
scriptVars ==
    <<run, dir, tasks, calls, prev_ok, prev_end, prev_errors, afile, aresult,
      marketVars, poolVars>>

\* Task 1: mkdir of the output directory, then the test of the input directory.
Task1 ==
    /\ prog = "process" /\ pc = "start"
    /\ pc' = "task2"
    /\ IF cfg.skip_task1
       THEN UNCHANGED <<work, config_errors, saved_markets>>
       ELSE IF ~cfg.market_data_dir
       THEN /\ work' = work \cup {"mkdir market_output_dir"}
            /\ config_errors' = Append(config_errors, "task1")
            /\ UNCHANGED saved_markets
       ELSE /\ saved_markets' = save_individual_markets(jsonl_files)
            /\ work' = work \cup {"mkdir market_output_dir", "read market_data_dir"}
                         \cup (IF saved_markets' # {} THEN {"write market_output_dir"} ELSE {})
            /\ UNCHANGED config_errors
    /\ UNCHANGED <<prog, cfg, jsonl_files, event_details, file_idx, line_num, market_tsv,
                   event_tsv, processed_event_ids, loaded, timeseries, event_ids, offsets,
                   price_history_check_errors>>
    /\ UNCHANGED scriptVars

\* Task 2 up to the first line: the tests of the three directories, the glob,
\* and the two output files opened and their header rows written.
Task2Start ==
    /\ prog = "process" /\ pc = "task2"
    /\ IF cfg.skip_task2
       THEN /\ pc' = "task3"
            /\ UNCHANGED <<work, config_errors, market_tsv, event_tsv, file_idx, line_num>>
       ELSE IF ~Task2Dirs
       THEN /\ pc' = "task3"
            /\ config_errors' = Append(config_errors, "task2")
            /\ UNCHANGED <<work, market_tsv, event_tsv, file_idx, line_num>>
       ELSE /\ pc' = "join"
            /\ work' = work \cup {"read market_data_dir", "write tsv"}
            /\ market_tsv' = <<market_headers_with_ids>>
            /\ event_tsv' = <<event_headers_prefixed>>
            /\ file_idx' = SkipEmpty(jsonl_files, 1) /\ line_num' = 1
            /\ UNCHANGED config_errors
    /\ UNCHANGED <<prog, cfg, jsonl_files, event_details, processed_event_ids, loaded,
                   timeseries, saved_markets, event_ids, offsets,
                   price_history_check_errors>>
    /\ UNCHANGED scriptVars

\* One iteration of "for line_num, line in enumerate(f, 1)".
JoinLine ==
    /\ prog = "process" /\ pc = "join"
    /\ file_idx <= Len(jsonl_files)
    /\ LET line == jsonl_files[file_idx][line_num]
           ev == EventLoop(EventLoopStart, current_event_ids(line))
           \* market_data.get on a value that is no dict and not false
           raised == line.kind = "nonobject"
           pos == AfterLine(jsonl_files, file_idx, line_num,
                            raised \/ (line.kind # "notjson" /\ ev.exc # "none"))
       IN  /\ file_idx' = pos[1] /\ line_num' = pos[2]
           /\ IF line.kind \in {"notjson", "nonobject"}
              THEN UNCHANGED <<market_tsv, event_tsv, processed_event_ids, loaded, work>>
              ELSE /\ market_tsv' = Append(market_tsv, market_row_values(line))
                   /\ event_tsv' = ev.rows
                   /\ processed_event_ids' = ev.processed
                   /\ loaded' = ev.loaded
                   /\ work' = work \cup (IF ev.loaded # loaded
                                         THEN {"read event_details_dir"} ELSE {})
           /\ price_history_check_errors' =
                  IF line.kind \notin {"notjson", "nonobject"}
                        /\ price_check_raises(market_id_of(line))
                  THEN price_history_check_errors + 1
                  ELSE price_history_check_errors
    /\ UNCHANGED <<prog, pc, cfg, jsonl_files, event_details, config_errors, timeseries,
                   saved_markets, event_ids, offsets>>
    /\ UNCHANGED scriptVars

\* The loop over the batch files is over.
JoinEnd ==
    /\ prog = "process" /\ pc = "join"
    /\ file_idx > Len(jsonl_files)
    /\ pc' = "task3"
    /\ UNCHANGED <<prog, processVars>>
    /\ UNCHANGED scriptVars

\* Task 3: mkdir of the output directory, then the test of the input directory.
Task3 ==
    /\ prog = "process" /\ pc = "task3"
    /\ pc' = "done"
    /\ IF cfg.skip_task3
       THEN UNCHANGED <<work, config_errors, timeseries>>
       ELSE IF ~cfg.price_history_dir
       THEN /\ work' = work \cup {"mkdir timeseries_output_dir"}
            /\ config_errors' = Append(config_errors, "task3")
            /\ UNCHANGED timeseries
       ELSE /\ timeseries' = create_timeseries_tsvs(price_history)
            /\ work' = work \cup {"mkdir timeseries_output_dir", "read price_history_dir",
                                  "write timeseries_output_dir"}
            /\ UNCHANGED config_errors
    /\ UNCHANGED <<prog, cfg, jsonl_files, event_details, file_idx, line_num, market_tsv,
                   event_tsv, processed_event_ids, loaded, saved_markets, event_ids, offsets,
                   price_history_check_errors>>
    /\ UNCHANGED scriptVars

\* --- extract_unique_event_ids (download_event_details.py)
\* The ids one line adds to event_ids; the first stub only.
ExtractLine_FirstOnly(line) ==
    IF line.kind = "object" /\ line.events.k = "list" /\ line.events.v # <<>>
    THEN Range(StubIds(<<Head(line.events.v)>>)) ELSE {}

\* The ids one line adds to event_ids: str(event['id']) of every dict with an
\* "id" in a list-valued "events"; a line that raises adds nothing.
ExtractLine(line) ==
    IF line.kind = "object" /\ line.events.k = "list"
    THEN Range(StubIds(line.events.v)) ELSE {}

\* The loop over the lines of one file, and over the files.
RECURSIVE ExtractFile(_, _)
ExtractFile(ids, lines) ==
    IF lines = <<>> THEN ids
    ELSE ExtractFile(ids \cup ExtractLine(Head(lines)), Tail(lines))

RECURSIVE ExtractFiles(_, _)
ExtractFiles(ids, files) ==
    IF files = <<>> THEN ids
    ELSE ExtractFiles(ExtractFile(ids, Head(files)), Tail(files))

extract_unique_event_ids(files) ==
    IF ~cfg.market_data_dir THEN {} ELSE ExtractFiles({}, files)

\* Calls of the two extractors made on one directory.
MaxScans == 2

\* A call of extract_unique_event_ids(market_data_dir).
Extract ==
    /\ prog = "extract"
    /\ Len(event_ids) < MaxScans
    /\ event_ids' = Append(event_ids, extract_unique_event_ids(jsonl_files))
    /\ UNCHANGED <<prog, pc, cfg, jsonl_files, event_details, work, config_errors, file_idx,
                   line_num, market_tsv, event_tsv, processed_event_ids, loaded,
                   timeseries, saved_markets, offsets, price_history_check_errors>>
    /\ UNCHANGED scriptVars

\* A call of get_starting_offset(output_dir, limit).
ScanOffset ==
    /\ prog = "extract"
    /\ Len(offsets) < MaxScans
    /\ offsets' = Append(offsets, get_starting_offset(dir, limit))
    /\ UNCHANGED <<prog, pc, cfg, jsonl_files, event_details, work, config_errors, file_idx,
                   line_num, market_tsv, event_tsv, processed_event_ids, loaded,
                   timeseries, saved_markets, event_ids, price_history_check_errors>>
    /\ UNCHANGED scriptVars

\* ------------------------------------------------------------- initial
Offsets == {i * limit : i \in 0..(MaxPages - 1)}

\* A directory holding the files of E with no content and those of F complete.
DirOf(E, F) == [n \in E \cup F |-> IF n \in E THEN <<>> ELSE Complete(n.key)]

\* Files an earlier run or the user may have left in the batch directory.
InitBatchNames ==
    {BatchName(o, limit) : o \in Offsets} \cup {OtherBatch, OtherName}

InitBatchDirs ==
    {DirOf(E, F) : <<E, F>> \in {x \in (SUBSET InitBatchNames) \X (SUBSET InitBatchNames) :
                                    x[1] \cap x[2] = {}}}

\* process_data.py and the extractors have not run.
NoCfg ==
    [market_data_dir |-> FALSE, event_details_dir |-> FALSE, price_history_dir |-> FALSE,
     skip_task1 |-> FALSE, skip_task2 |-> FALSE, skip_task3 |-> FALSE]

InitOutputs ==
    /\ work = {} /\ config_errors = <<>>
    /\ file_idx = 1 /\ line_num = 1
    /\ market_tsv = <<>> /\ event_tsv = <<>>
    /\ processed_event_ids = {} /\ loaded = <<>>
    /\ timeseries = <<>> /\ saved_markets = {}
    /\ event_ids = <<>> /\ offsets = <<>>
    /\ price_history_check_errors = 0

ProcessIdle ==
    /\ cfg = NoCfg /\ jsonl_files = <<>> /\ event_details = <<>>
    /\ InitOutputs

InitCommon ==
    /\ run = 1 /\ pc = "start" /\ tasks = NoTasks
    /\ requested = <<>> /\ halt = "none" /\ calls = 0 /\ prev_ok = FALSE
    /\ prev_end = "none" /\ prev_errors = {} /\ response = "none"
    /\ aresult = NoResult
    /\ current_offset = 0 /\ start_offset = 0
    /\ pending = <<>> /\ collected = {}
    /\ success_count = 0 /\ error_count = 0
    /\ fetch_error_count = 0 /\ save_error_count = 0
    /\ fetch_errors = <<>> /\ save_errors = <<>>

InitMarkets ==
    /\ prog = "markets"
    /\ npages \in 0..MaxPages
    /\ up = <<>> /\ input = {}
    /\ dir \in InitBatchDirs
    /\ afile = NoFile
    /\ ProcessIdle
    /\ InitCommon

\* Event or price files an earlier run or the user may have left.
InitIdDirs(keys) ==
    {DirOf(E, F) : <<E, F>> \in {x \in (SUBSET {IdName(k) : k \in keys})
                                       \X (SUBSET {IdName(k) : k \in keys}) :
                                    x[1] \cap x[2] = {}}}

InitEvents ==
    /\ prog = "events"
    /\ npages = 0
    /\ up \in [EventIds -> EventIds]
    /\ input \in SUBSET EventIds
    /\ dir \in InitIdDirs(EventIds)
    /\ afile = NoFile
    /\ ProcessIdle
    /\ InitCommon

InitPrices ==
    /\ prog = "prices"
    /\ npages = 0
    /\ up = <<>>
    /\ input \in PriceInputs
    /\ dir \in InitIdDirs({MarketIdOf(f) : f \in MarketFiles})
    /\ afile = NoFile
    /\ ProcessIdle
    /\ InitCommon

\* The values "p" and "t" of a history entry can have.
PriceValues == {Num(1), Num(2), Str(1), Text, Null, Absent}
TimeValues == {Num(0), Num(60), Num(120), Str(60), Text, Null, Inf, Absent}

\* Every kind of history entry.
AllPoints == {NonDict} \cup {Point(p, t) : p \in PriceValues, t \in TimeValues}

\* The entries of longer series: valid points a minute or two apart, at one
\* price or another, and two malformed ones.
SeriesPoints ==
    {Point(Num(1), Num(0)), Point(Num(1), Num(60)), Point(Num(1), Num(120)),
     Point(Num(2), Num(120)), NonDict, Point(Num(1), Inf)}

\* The lists of at most n entries of S.
Histories(S, n) == UNION {[1..k -> S] : k \in 0..n}

\* The price history files analyze_file is given.
AnalyzeFiles ==
    {[kind |-> k, history |-> <<>>] : k \in {"missing", "notjson", "notobject", "nohistory"}}
      \cup {[kind |-> "object", history |-> h] :
                h \in Histories(AllPoints, MaxMixed) \cup Histories(SeriesPoints, MaxSeries)}

InitAnalyze ==
    /\ prog = "analyze"
    /\ npages = 0
    /\ up = <<>> /\ input = {}
    /\ dir = <<>>
    /\ afile \in AnalyzeFiles
    /\ ProcessIdle
    /\ InitCommon

\* The lines of the market batch files: the three that are no market, a market
\* with one event and a question holding the three characters, a market with
\* two events (the first by a string id), a market without id whose events
\* list holds two entries that are no stub, and two markets without events.
MarketLines ==
    {NotJsonLine, FalsyLine, NonObjectLine,
     MarketLine(Num(1), Chars(<<Letter, Tab, Newline, Return>>), EventList(<<Stub(Num(1))>>)),
     MarketLine(Str(2), Absent, EventList(<<Stub(Str(2)), Stub(Num(1))>>)),
     MarketLine(Absent, Null, EventList(<<NonDictStub, Stub(Absent), Stub(Str(1))>>)),
     MarketLine(Num(3), Absent, Text),
     MarketLine(Num(0), Absent, Absent)}

\* The batch directories: one file of at most two lines, alone or followed by a
\* file of at most one line, or no file.
BatchInputs ==
    {<<>>} \cup {<<f>> : f \in Histories(MarketLines, 2)}
           \cup {<<f, g>> : f \in Histories(MarketLines, 2), g \in Histories(MarketLines, 1)}

\* The event directories: any kind of file for event 1, a good file or none for 2.
EventDirs ==
    {(<<"1">> :> k1) @@ (<<"2">> :> k2) : k1 \in EventKinds, k2 \in {"missing", "object"}}

AllDirs ==
    [market_data_dir |-> TRUE, event_details_dir |-> TRUE, price_history_dir |-> TRUE,
     skip_task1 |-> FALSE, skip_task2 |-> FALSE, skip_task3 |-> FALSE]

\* Every combination of missing directories and skipped tasks.
Configs ==
    [market_data_dir : BOOLEAN, event_details_dir : BOOLEAN, price_history_dir : BOOLEAN,
     skip_task1 : BOOLEAN, skip_task2 : BOOLEAN, skip_task3 : BOOLEAN]

\* The batch directory of the runs with a missing directory or a skipped task.
TwoMarkets ==
    <<<<MarketLine(Num(1), Absent, EventList(<<Stub(Num(1))>>)),
        MarketLine(Str(2), Absent, EventList(<<Stub(Str(2)), Stub(Num(1))>>))>>>>

\* Markets without events, one for every kind of price file, and a line that
\* is no market.
PriceLines ==
    {MarketLine(Num(i), Absent, Absent) : i \in {1, 3, 4, 5, 6, 7}} \cup {NonObjectLine}

\* The batch directories of the runs over the price files: one file of at most
\* two lines.
PriceBatches == {<<f>> : f \in Histories(PriceLines, 2)} \ {<<<<>>>>}

InitProcess ==
    /\ prog = "process"
    /\ npages = 0 /\ up = <<>> /\ input = {} /\ dir = <<>>
    /\ afile = NoFile
    /\ \/ /\ cfg = AllDirs
          /\ jsonl_files \in BatchInputs
          /\ event_details \in EventDirs
       \/ /\ cfg = AllDirs
          /\ jsonl_files \in PriceBatches
          /\ event_details = <<>>
       \/ /\ cfg \in Configs \ {AllDirs}
          /\ jsonl_files = IF cfg.market_data_dir THEN TwoMarkets ELSE <<>>
          /\ event_details = IF cfg.event_details_dir
                             THEN (<<"1">> :> "object") @@ (<<"2">> :> "missing")
                             ELSE <<>>
    /\ InitOutputs
    /\ InitCommon

\* The directory the two extractors scan: its batch files by name and size
\* (dir) and by their lines (jsonl_files).
InitExtract ==
    /\ prog = "extract"
    /\ npages = 0 /\ up = <<>> /\ input = {}
    /\ dir \in {DirOf({}, F) : F \in SUBSET InitBatchNames}
    /\ afile = NoFile
    /\ cfg \in {AllDirs, [AllDirs EXCEPT !.market_data_dir = FALSE]}
    /\ jsonl_files \in IF cfg.market_data_dir
                        THEN {<<f>> : f \in Histories(MarketLines, 2)} ELSE {<<>>}
    /\ event_details = <<>>
    /\ InitOutputs
    /\ InitCommon

NextMarkets == MStart \/ MFetch \/ MPut \/ MSaved \/ Kill \/ Rerun

SpecMarkets == InitMarkets /\ [][NextMarkets]_vars

\* The futures of a run: no input above has more than two items.
TaskIds == {1, 2}

NextPool ==
    \/ PStart
    \/ \E i \in TaskIds : TaskFetch(i) \/ PPut(i) \/ Collect(i)
    \/ Summary \/ Kill \/ Rerun

SpecPool == (InitEvents \/ InitPrices) /\ [][NextPool]_vars

\* The per-ID fetchers under the scheduling the claim on reruns relies on: the
\* pool runs every submitted unit of work to its end, the driver collects every
\* finished future and leaves the with-block, and the script is started again
\* after every run that is over. A kill may happen but need not.
FairPool ==
    /\ SpecPool
    /\ WF_vars(PStart) /\ WF_vars(Summary) /\ WF_vars(Rerun)
    /\ \A i \in TaskIds :
          WF_vars(TaskFetch(i)) /\ WF_vars(PPut(i)) /\ WF_vars(Collect(i))

NextAnalyze == Analyze

SpecAnalyze == InitAnalyze /\ [][NextAnalyze]_vars

NextProcess == Task1 \/ Task2Start \/ JoinLine \/ JoinEnd \/ Task3

SpecProcess == InitProcess /\ [][NextProcess]_vars

NextExtract == Extract \/ ScanOffset

SpecExtract == InitExtract /\ [][NextExtract]_vars

\* ----------------------------------------------- one save function alone
\* Calls of one save function with the same id and the same content.
MaxPuts == 3

\* The ids a save function names files after, and the contents it is given.
PutKeys ==
    CASE prog = "markets" -> Offsets
      [] prog = "events" -> EventIds
      [] OTHER -> {MarketIdOf(f) : f \in MarketFiles}
PutPayloads ==
    CASE prog = "markets" -> Offsets
      [] prog = "events" -> EventIds
      [] OTHER -> {f.token : f \in MarketFiles}

\* save_batch_jsonl, save_event_details or save_price_history is entered, with
\* no other unit of work running, on a directory an earlier run may have left.
InitPut ==
    /\ prog \in {"markets", "events", "prices"}
    /\ dir \in CASE prog = "markets" -> InitBatchDirs
                 [] prog = "events" -> InitIdDirs(EventIds)
                 [] OTHER -> InitIdDirs({MarketIdOf(f) : f \in MarketFiles})
    /\ \E k \in PutKeys, c \in PutPayloads : tasks = <<NewTask(k, k, c)>>
    /\ pc = (IF prog = "markets" THEN "saving" ELSE "running")
    /\ run = 1 /\ npages = 0 /\ up = <<>> /\ input = {}
    /\ requested = <<>> /\ halt = "none" /\ calls = 0 /\ prev_ok = FALSE
    /\ prev_end = "none" /\ prev_errors = {} /\ response = "none"
    /\ current_offset = 0 /\ start_offset = 0
    /\ pending = <<>> /\ collected = {}
    /\ success_count = 0 /\ error_count = 0
    /\ fetch_error_count = 0 /\ save_error_count = 0
    /\ fetch_errors = <<>> /\ save_errors = <<>>
    /\ afile = NoFile /\ aresult = NoResult
    /\ ProcessIdle

\* One step of the save function.
PutOnce ==
    /\ PutStep(1)
    /\ UNCHANGED <<prog, run, pc, calls, prev_ok, prev_end, prev_errors, afile,
                   aresult, marketVars, poolVars, processVars>>

\* The save function has returned and is called again with the same arguments.
PutAgain ==
    /\ tasks[1].pc = "done" /\ run < MaxPuts
    /\ run' = run + 1
    /\ prev_ok' = (tasks[1].status = "success")
    /\ tasks' = <<NewTask(tasks[1].item, tasks[1].key, tasks[1].tok)>>
    /\ UNCHANGED <<prog, dir, pc, calls, prev_end, prev_errors, afile, aresult,
                   marketVars, poolVars, processVars>>

NextPut == PutOnce \/ PutAgain

SpecPut == InitPut /\ [][NextPut]_vars

\* The paginated fetcher started on an empty output directory.
InitMarketsEmpty == InitMarkets /\ dir = <<>>

SpecMarketsEmpty == InitMarketsEmpty /\ [][NextMarkets]_vars

Init ==
    InitMarkets \/ InitEvents \/ InitPrices \/ InitAnalyze \/ InitProcess \/ InitExtract

Next == NextMarkets \/ NextPool \/ NextAnalyze \/ NextProcess \/ NextExtract

Spec == Init /\ [][Next]_vars

\* ================================================================ claims
Pool == prog \in {"events", "prices"}

\* A file holding one payload in full: every chunk written, all of one payload.
Intact(c) == Len(c) = Chunks /\ \A i \in 1..Len(c) : c[i] = c[1] /\ c[i] # Hole

Count(seq, x) == Cardinality({i \in DOMAIN seq : seq[i] = x})

NoDuplicates(seq) == \A i, j \in DOMAIN seq : seq[i] = seq[j] => i = j

\* The tasks of the run that ended with one of the given statuses.
Ended(statuses) == {i \in DOMAIN tasks : tasks[i].status \in statuses}

\* C1: at every step of a put, an I/O failure or a kill included, the file under
\* a final name is absent, keeps the content it had, or holds one complete
\* payload: no step makes a partially written file visible under a final name.
C1_FinalNeverPartial ==
    [][\A n \in DOMAIN dir' :
          (~n.tmp /\ (n \notin DOMAIN dir \/ dir'[n] # dir[n])) => Intact(dir'[n])]_vars

\* The directory without its temporary files.
WithoutTemps(d) == [n \in {m \in DOMAIN d : ~m.tmp} |-> d[n]]

\* C2: when a run starts, the temporary files an interrupted or failed put left
\* behind do not change what any resume predicate answers: the starting offset
\* of the paginated fetcher and the already-downloaded test of the per-ID
\* fetchers are the same with and without them.
C2_TempNeverCounted ==
    pc = "start" =>
        /\ get_starting_offset(dir, limit) = get_starting_offset(WithoutTemps(dir), limit)
        /\ \A n \in DOMAIN dir :
              n.kind = "id" =>
                 (AlreadyDownloaded(dir, n.key) = AlreadyDownloaded(WithoutTemps(dir), n.key))

\* The set D of the claim: ids whose final-named file exists with size > 0.
DownloadedIds(d) == {n.key : n \in {m \in DOMAIN d : m.kind = "id" /\ ~m.tmp /\ d[m] # <<>>}}

InputSeqs ==
    {[i \in DOMAIN fs |-> IF prog = "events" THEN fs[i] ELSE PairOf(fs[i])] :
        fs \in Orders(input)}

\* C3: in both per-ID fetchers, for every iteration order of the extracted items
\* the pending list holds exactly the items whose id is not in D (one entry per
\* item, in the order met), so its ids are S minus D; the list handed to the
\* pool is that list, and the run exits without a pool exactly when it is empty.
C3_PendingIsDifference ==
    Pool =>
        /\ \A items \in InputSeqs :
              LET p == Phase2Filter(items, dir)
              IN  /\ {ItemId(p[i]) : i \in DOMAIN p}
                       = {ItemId(items[i]) : i \in DOMAIN items} \ DownloadedIds(dir)
                  /\ Len(p) = Cardinality({i \in DOMAIN items :
                                              ItemId(items[i]) \notin DownloadedIds(dir)})
        /\ (pc = "running" /\ \A i \in DOMAIN tasks : tasks[i].pc = "queued") =>
              /\ {ItemId(pending[i]) : i \in DOMAIN pending}
                   = {ItemId(x) : x \in ItemsOf(input)} \ DownloadedIds(dir)
              /\ \A i \in DOMAIN tasks : tasks[i].item = pending[i]
              /\ pending # <<>>
        /\ pc = "exit" => {ItemId(x) : x \in ItemsOf(input)} \subseteq DownloadedIds(dir)

\* A run that skips a downloaded id and fetches one whose file has length zero.
C3_Witness ==
    /\ Pool /\ pc = "running" /\ \A i \in DOMAIN tasks : tasks[i].pc = "queued"
    /\ Len(pending) = 1
    /\ Cardinality({ItemId(x) : x \in ItemsOf(input)}) = 2
    /\ Exists(dir, IdName(ItemId(pending[1]))) /\ dir[IdName(ItemId(pending[1]))] = <<>>

\* The offsets of the files the pattern matches (from the start of the name:
\* batch files of any limit, and names that continue one) that have size > 0.
CountedOffsets(d) == {n.key : n \in {m \in DOMAIN d : m.kind = "batch" /\ Len(d[m]) > 0}}

SetMax(S) == CHOOSE m \in S : \A x \in S : x <= m

EarlierPagesPersisted ==
    \A i \in 1..(Len(requested) - 1) :
        /\ Exists(dir, BatchName(requested[i], limit))
        /\ dir[BatchName(requested[i], limit)] = Complete(requested[i])

\* C5: the paginated run starts at the watermark and stops at the first fetch
\* failure, empty page or save failure: while it goes on none of them has
\* occurred; every page before the latest request was non-empty and is
\* persisted under its own offset before the next request; once stopped, the
\* run requests nothing and writes nothing more.
C5_HaltsAtFirstStop ==
    /\ [](prog = "markets" =>
            /\ requested # <<>> => requested[1] = start_offset
            /\ EarlierPagesPersisted
            /\ \A i \in 1..(Len(requested) - 1) : PageNonEmpty(requested[i])
            /\ pc \in {"fetch", "saving"} => halt = "none"
            /\ pc = "saving" => PageNonEmpty(requested[Len(requested)])
            /\ pc = "halted" =>
                  /\ halt \in {"error", "crash", "done", "saveError"}
                  /\ halt = "done" => ~PageNonEmpty(requested[Len(requested)])
                  /\ halt = "saveError" =>
                        /\ PageNonEmpty(requested[Len(requested)])
                        /\ current_offset = requested[Len(requested)])
    /\ [][(prog = "markets" /\ pc = "halted" /\ run' = run) =>
              (requested' = requested /\ dir' = dir /\ calls' = calls)]_vars

\* A run that persisted a page and then stopped on a save failure.
C5_Witness ==
    /\ prog = "markets" /\ pc = "halted" /\ halt = "saveError"
    /\ Len(requested) = 2
    /\ ~Exists(dir, BatchName(requested[2], limit))

\* C6: within one run the requested offsets are the watermark, watermark +
\* limit, watermark + 2 limit, ...: strictly increasing in steps of limit, so
\* no offset is requested twice; an offset that failed is not requested again
\* in the run.
C6_OffsetsOnce ==
    prog = "markets" =>
        /\ \A i \in DOMAIN requested : requested[i] = start_offset + (i - 1) * limit
        /\ NoDuplicates(requested)
        /\ Len(requested) = calls
        /\ pc = "halted" => current_offset = requested[Len(requested)]

\* A run that has requested two offsets, the first above zero.
C6_Witness ==
    /\ prog = "markets" /\ Len(requested) = 2 /\ requested[1] = limit

\* The numbers the summary logs.
SummaryFetchErrors == IF prog = "events" THEN Len(fetch_errors) ELSE fetch_error_count
SummarySaveErrors == IF prog = "events" THEN Len(save_errors) ELSE save_error_count

\* C7: with N pending items of which M end in a fetch failure and K in a save
\* failure, the summary has N-M-K successes, M fetch errors and K save errors,
\* and the two ID lists are disjoint, hold no ID twice and have M+K entries.
C7_SummaryCounts ==
    (Pool /\ pc = "summary") =>
        LET N == Len(pending)
            M == Cardinality(Ended({"fetch_error", "raised"}))
            K == Cardinality(Ended({"save_error"}))
        IN  /\ success_count = N - M - K
            /\ SummaryFetchErrors = M
            /\ SummarySaveErrors = K
            /\ Range(fetch_errors) \cap Range(save_errors) = {}
            /\ NoDuplicates(fetch_errors) /\ NoDuplicates(save_errors)
            /\ Len(fetch_errors) + Len(save_errors) = M + K

\* C8: an exception that leaves one unit of work is recorded as a fetch error of
\* that item and of no other: at every moment each id is listed as often as
\* collected items of that id ended that way, successes are counted alike, the
\* driver keeps collecting, and at the summary every other item has contributed
\* the outcome it ended with.
C8_ExceptionIsFetchError ==
    (Pool /\ pc \in {"running", "summary"}) =>
        /\ \A i \in DOMAIN tasks :
              LET id == ItemId(tasks[i].item)
                  same(st) == {j \in collected : ItemId(tasks[j].item) = id
                                                 /\ tasks[j].status \in st}
              IN  /\ Count(fetch_errors, id) = Cardinality(same({"fetch_error", "raised"}))
                  /\ Count(save_errors, id) = Cardinality(same({"save_error"}))
        /\ success_count = Cardinality(collected \cap Ended({"success"}))
        /\ (pc = "summary" /\ Ended({"raised"}) # {}) =>
              \A i \in DOMAIN tasks : i \in collected /\ tasks[i].status # "none"

\* A summary after one item raised and another succeeded.
C8_Witness ==
    /\ Pool /\ pc = "summary"
    /\ Ended({"raised"}) # {} /\ Ended({"success"}) # {}

\* C9: the summary is reported only once the pool has drained: every submitted
\* item has finished and been collected, no file handle is open, and the
\* counts add up to the number of submitted items.
C9_SummaryAfterDrain ==
    (Pool /\ pc = "summary") =>
        /\ \A i \in DOMAIN tasks : tasks[i].pc = "done" /\ tasks[i].h = "none"
        /\ collected = DOMAIN tasks
        /\ DOMAIN tasks = DOMAIN pending
        /\ success_count + Len(fetch_errors) + Len(save_errors) = Len(pending)

\* A summary of a run of two items.
C9_Witness ==
    /\ Pool /\ pc = "summary" /\ Len(pending) = 2
    /\ success_count = 1 /\ Len(save_errors) = 1

\* C10: a run of a per-ID fetcher that follows a run in which every item ended
\* in success (same upstream, same input) issues no network call.
C10_SecondRunNoCalls ==
    (Pool /\ run > 1 /\ prev_ok) => calls = 0

\* C11 as stated: the run of the paginated fetcher that follows a run ended in
\* the done state issues no network call.
C11_SecondRunNoCalls ==
    (prog = "markets" /\ run > 1 /\ prev_ok) => calls = 0

\* C11 amended: the run that follows a run ended in the done state issues one
\* network call and no more, the request at the starting offset, for which the
\* unchanged upstream holds an empty page; it saves nothing.
C11_SecondRunOneCall ==
    (prog = "markets" /\ run > 1 /\ prev_ok) =>
        /\ calls <= 1
        /\ pc # "saving" /\ tasks = NoTasks
        /\ pc = "halted" =>
              /\ calls = 1
              /\ requested = <<start_offset>>
              /\ ~PageNonEmpty(start_offset)

\* A second run that stopped at the empty page behind a saved page.
C11_Witness ==
    /\ prog = "markets" /\ run > 1 /\ prev_ok
    /\ pc = "halted" /\ halt = "done" /\ calls = 1
    /\ start_offset >= limit
    /\ ExistsNonEmpty(dir, BatchName(start_offset - limit, limit))

\* The ids of the pending list.
PendingIds == {ItemId(pending[i]) : i \in DOMAIN pending}

\* C12: in a run that follows a run which reported its summary (same input,
\* store changed by the program only), the pending list holds exactly the IDs
\* the previous summary listed as fetch errors or save errors.
C12_PendingIsPreviousErrors ==
    (Pool /\ run > 1 /\ prev_end = "summary" /\ pc \in {"running", "summary", "exit"}) =>
        PendingIds = prev_errors

\* The upstream outcomes that are no body of the shape a fetch function expects
\* (an array for the list endpoint, an object with the field read otherwise).
Unexpected(shape) == UpstreamOutcomes \ {shape}

\* C13: every upstream outcome other than a body of the expected shape makes
\* the fetch function return None and lets no exception leave it: the paginated
\* loop then stops in the error state, and fetch_event_details and
\* fetch_price_history give None for each such outcome.
C13_FetchFailureIsNone ==
    /\ (prog = "markets" /\ response \in Unexpected("list")) =>
          /\ fetch_markets_batch(response) = "none"
          /\ pc = "halted" /\ halt = "error"
    /\ prog = "events" => \A o \in Unexpected("object") : fetch_event_details(o) = "none"
    /\ prog = "prices" => \A o \in Unexpected("object") : fetch_price_history(o) = "none"

ZeroLength(d, n) == Exists(d, n) /\ d[n] = <<>>

\* The directory is still as the run found it: nothing was fetched yet.
AtStartOfWork ==
    IF prog = "markets" THEN pc = "fetch" /\ requested = <<>>
    ELSE pc = "running" /\ \A i \in DOMAIN tasks : tasks[i].pc = "queued"

\* A zero-length file does not count toward the resume watermark.
ZeroLengthNotCounted ==
    /\ \A n \in DOMAIN dir :
          (PatternMatch(n) /\ ZeroLength(dir, n)) =>
             get_starting_offset(dir, limit) = get_starting_offset(Remove(dir, n), limit)
    /\ \A n \in DOMAIN dir :
          (n.kind = "id" /\ ~n.tmp /\ ZeroLength(dir, n)) => ~AlreadyDownloaded(dir, n.key)

C15_FailedPutLeavesNoTemp ==
    [][\A i \in DOMAIN tasks \cap DOMAIN tasks' :
          (tasks[i].pc \in {"open", "write", "rename", "cleanup"}
             /\ tasks'[i].pc = "done" /\ tasks'[i].status = "save_error") =>
                \/ ~Exists(dir', TempName(tasks[i].key))
                \/ tasks[i].pc = "cleanup" /\ Exists(dir, TempName(tasks[i].key)) /\ dir' = dir]_vars

\* The units of work of the run that have opened their temporary file.
Writers == {i \in DOMAIN tasks : tasks[i].pc \in {"write", "rename"} \/ tasks[i].status = "success"}

\* C16: within one run of a parallel fetcher no two units of work write the
\* same temporary or final file: the units that have opened a file have
\* pairwise different targets.
C16_SingleWriter ==
    Pool => \A i, j \in Writers : i # j => tasks[i].key # tasks[j].key

\* What analyze_file returned for the file.
Res == aresult[1]

Analysed == prog = "analyze" /\ pc = "done"

\* A history entry both of whose fields parse: a dict whose "p" is a number or a
\* numeral and whose "t" is a finite number or a numeral.
ValidPoint(pt) ==
    /\ pt.dict
    /\ pt.p.k \in {"num", "str"}
    /\ pt.t.k \in {"num", "str"}

ValidCount(h) == Cardinality({i \in DOMAIN h : ValidPoint(h[i])})
MalformedCount(h) == Cardinality({i \in DOMAIN h : ~ValidPoint(h[i])})

\* The issues of a result with the given message.
IssuesOf(r, msg) == {i \in DOMAIN r.issues : r.issues[i].msg = msg}

\* C17: for a history list with v valid and k malformed entries analyze_file
\* returns (no exception leaves it) num_points = v and, when k > 0, exactly one
\* malformed-points issue, which reports k; with k = 0 there is none.
C17_MalformedCounted ==
    (Analysed /\ afile.kind = "object" /\ afile.history # <<>>) =>
        LET v == ValidCount(afile.history)
            k == MalformedCount(afile.history)
        IN  /\ v + k = Len(afile.history)
            /\ Res.exc = "none"
            /\ Res.num_points = v
            /\ Cardinality(IssuesOf(Res, "malformed")) = (IF k > 0 THEN 1 ELSE 0)
            /\ \A i \in IssuesOf(Res, "malformed") : Res.issues[i].n = k

\* The prices of the valid entries of a history list, in received order.
ValidPrices(h) ==
    LET s == SelectSeq(h, ValidPoint) IN [i \in DOMAIN s |-> s[i].p.v]

HasIssue(r, msg) == IssuesOf(r, msg) # {}

\* C18: for a series without a valid point analyze_file returns num_points = 0,
\* no mean, no standard deviation, no time range, no delta statistics and an
\* issue saying there is no data; for an empty history list that issue is
\* "History list is empty." and it is the only one.
C18_NoValidPoints ==
    (Analysed /\ afile.kind \in {"object", "nohistory"} /\ ValidCount(afile.history) = 0) =>
        /\ Res.exc = "none"
        /\ Res.num_points = 0
        /\ Res.mean_price = None /\ Res.std_dev_price = None
        /\ Res.min_time = None /\ Res.max_time = None
        /\ Res.time_delta_stats = None
        /\ \/ HasIssue(Res, "history_empty")
           \/ HasIssue(Res, "no_valid_points")
           \/ HasIssue(Res, "no_history")
        /\ (afile.kind = "object" /\ afile.history = <<>>) =>
              Res.issues = <<Issue("history_empty", 0)>>

\* C19: analyze_file sets mean_price (to the mean of the valid prices) whenever
\* there is a valid point, and std_dev_price exactly when there are two or
\* more; with one valid point std_dev_price is None and the not-enough-points
\* issue is recorded, which it is in no other case.
C19_MeanAndStdev ==
    (Analysed /\ afile.kind = "object") =>
        LET v == ValidCount(afile.history)
        IN  /\ v >= 1 => /\ Res.exc = "none"
                         /\ Res.mean_price = Some(Frac(SumSeq(ValidPrices(afile.history)), v))
            /\ (Res.std_dev_price # None) <=> (v >= 2)
            /\ HasIssue(Res, "not_enough_points") <=> (v = 1)
            /\ Cardinality(IssuesOf(Res, "not_enough_points")) <= 1

\* The ratio q has the integer value n.
FracIs(q, n) == q.num = n * q.den

\* The series t = 0, 60, 120 at price 1.
ConstantSeries ==
    <<Point(Num(1), Num(0)), Point(Num(1), Num(60)), Point(Num(1), Num(120))>>

\* C20: the constant-price issue is recorded exactly when the series has two or
\* more valid points and all valid prices are equal; for the series t = 0, 60,
\* 120 at price 1 the issue is there, the deltas have min = max = mean =
\* median = 60 and there is no irregular-delta entry.
C20_ConstantPrice ==
    (Analysed /\ afile.kind = "object") =>
        LET ps == ValidPrices(afile.history)
        IN  /\ HasIssue(Res, "constant_price")
                 <=> (Len(ps) >= 2 /\ \A i \in DOMAIN ps : ps[i] = ps[1])
            /\ afile.history = ConstantSeries =>
                  /\ Res.mean_price # None /\ FracIs(Res.mean_price[1], 1)
                  /\ IsZero(Res.std_dev_price[1])
                  /\ Res.time_delta_stats # None
                  /\ Res.time_delta_stats[1].min_delta_seconds = 60
                  /\ Res.time_delta_stats[1].max_delta_seconds = 60
                  /\ Res.time_delta_stats[1].mean_delta_seconds = 6000
                  /\ FracIs(Res.time_delta_stats[1].median_delta_seconds, 60)
                  /\ Res.time_delta_stats[1].non_60_second_deltas = None

\* The timestamps of the valid entries of a history list, in received order.
ValidTimes(h) ==
    LET s == SelectSeq(h, ValidPoint) IN [i \in DOMAIN s |-> s[i].t.v]

\* How often x occurs in the list s.
Occurrences(s, x) == Cardinality({i \in DOMAIN s : s[i] = x})

\* C21: for a series with n >= 2 valid points analyze_file returns delta
\* statistics over the n-1 differences t[i+1]-t[i] of the valid timestamps in
\* received order: their min, max, mean (in hundredths) and median; the
\* irregular-delta histogram maps exactly each delta other than 60 to its
\* number of occurrences, it is absent when every delta is 60, and its counts
\* plus the number of 60-second deltas sum to n-1.
C21_DeltaStatistics ==
    (Analysed /\ afile.kind = "object" /\ ValidCount(afile.history) >= 2) =>
        LET ts == ValidTimes(afile.history)
            n == Len(ts)
            d == [i \in 1..(n - 1) |-> ts[i + 1] - ts[i]]
            st == Res.time_delta_stats[1]
            hist == st.non_60_second_deltas
        IN  /\ Res.exc = "none"
            /\ Res.time_delta_stats # None
            /\ st.num_deltas = n - 1
            /\ st.min_delta_seconds \in Range(d)
            /\ \A i \in DOMAIN d : st.min_delta_seconds <= d[i]
            /\ st.max_delta_seconds \in Range(d)
            /\ \A i \in DOMAIN d : d[i] <= st.max_delta_seconds
            /\ 2 * (n - 1) * st.mean_delta_seconds <= 200 * SumSeq(d) + (n - 1)
            /\ 2 * (n - 1) * st.mean_delta_seconds > 200 * SumSeq(d) - (n - 1)
            /\ LET below == Cardinality({i \in DOMAIN d :
                               d[i] * st.median_delta_seconds.den
                                   <= st.median_delta_seconds.num})
                   above == Cardinality({i \in DOMAIN d :
                               d[i] * st.median_delta_seconds.den
                                   >= st.median_delta_seconds.num})
               IN  2 * below >= n - 1 /\ 2 * above >= n - 1
            /\ (hist = None) <=> (\A i \in DOMAIN d : d[i] = 60)
            /\ hist # None =>
                  /\ DOMAIN hist[1] = Range(d) \ {60}
                  /\ \A x \in DOMAIN hist[1] : hist[1][x] = Occurrences(d, x)
                  /\ SumSeq([i \in 1..Len(d) |->
                               IF d[i] = 60 THEN 0
                               ELSE IF \E j \in 1..(i - 1) : d[j] = d[i] THEN 0
                               ELSE hist[1][d[i]]])
                        + Occurrences(d, 60) = n - 1

\* C22: analyze_file records the very-few-points issue for every series with
\* fewer than 5 valid points and for no series with 5 or more.
C22_VeryFewPoints ==
    (Analysed /\ afile.kind = "object") =>
        (HasIssue(Res, "very_few") <=> ValidCount(afile.history) < 5)

\* C23: no exception leaves analyze_file: for every file it returns a record,
\* and when the file could not be read as a series (missing, no JSON, no
\* object, no history list, no valid point) the record holds an issue and its
\* numeric fields are None.
C23_NoExceptionEscapes ==
    Analysed =>
        /\ Res.exc = "none"
        /\ (afile.kind # "object" \/ ValidCount(afile.history) = 0) =>
              /\ Res.issues # <<>>
              /\ Res.mean_price = None /\ Res.std_dev_price = None
              /\ Res.min_time = None /\ Res.max_time = None
              /\ Res.time_delta_stats = None

\* The lines of all batch files, in the order they are read.
RECURSIVE Flatten(_)
Flatten(files) == IF files = <<>> THEN <<>> ELSE Head(files) \o Flatten(Tail(files))

\* A line the join reads as a market record: a dict, or a value it takes for an
\* empty record.
IsRecord(line) == line.kind \in {"object", "falsy"}

\* create_market_and_event_tsvs has returned.
JoinDone == prog = "process" /\ pc \in {"task3", "done"} /\ market_tsv # <<>>

\* The cell a field of a record is rendered as.
FieldCell(line, x) ==
    IF line.kind # "object" \/ x.k = "absent" THEN <<>> ELSE sanitize_value(x)

\* C24: when create_market_and_event_tsvs has returned, the market table holds
\* exactly one row for every market record of the batch files, in order; every
\* market and event row has as many cells as its header row; a field the
\* record lacks is the empty cell, and the event_ids cell is the ids of the
\* record's event stubs in their order, joined by commas.
C24_OneRowPerMarket ==
    JoinDone =>
        LET recs == SelectSeq(Flatten(jsonl_files), IsRecord)
            rows == Tail(market_tsv)
        IN  /\ Len(rows) = Len(recs)
            /\ \A i \in DOMAIN rows :
                  /\ Len(rows[i]) = Len(market_tsv[1])
                  /\ rows[i][1] = FieldCell(recs[i], recs[i].id)
                  /\ rows[i][2] = FieldCell(recs[i], recs[i].question)
                  /\ rows[i][3] = CommaJoin(current_event_ids(recs[i]))
            /\ \A i \in DOMAIN event_tsv : Len(event_tsv[i]) = Len(event_tsv[1])

\* The event ids the records of the batch files refer to.
ReferencedIds ==
    UNION {Range(current_event_ids(Flatten(jsonl_files)[i])) :
              i \in DOMAIN Flatten(jsonl_files)}

\* C25: in one run of create_market_and_event_tsvs the event table gets at
\* most one row per event id and no event file is loaded twice; once the run
\* has returned, every event id a market refers to is in the processed set,
\* whether or not its file was found or parsed.
C25_EventOnce ==
    (prog = "process" /\ event_tsv # <<>>) =>
        /\ \A i, j \in DOMAIN Tail(event_tsv) :
              Tail(event_tsv)[i][1] = Tail(event_tsv)[j][1] => i = j
        /\ \A i, j \in DOMAIN loaded : loaded[i] = loaded[j] => i = j
        /\ JoinDone => ReferencedIds \subseteq processed_event_ids

\* The market whose two linked events are 2 and 1, in that order.
TwoEventMarket == MarketLine(Str(2), Absent, EventList(<<Stub(Str(2)), Stub(Num(1))>>))

\* C26: a missing event file does not halt the join: when a run in which some
\* referenced event file is missing has returned, every market record has its
\* row and the event table holds a row for exactly the referenced event ids
\* whose file exists and loads; for the single market with events 2 and 1 of
\* which only event_1.json exists there is one market row listing "2,1" and
\* one event row, that of event 1.
C26_MissingEventFile ==
    (JoinDone /\ \E id \in ReferencedIds : EventKind(id) = "missing") =>
        /\ Len(Tail(market_tsv)) = Len(SelectSeq(Flatten(jsonl_files), IsRecord))
        /\ {Tail(event_tsv)[i][1] : i \in DOMAIN Tail(event_tsv)}
              = {id \in ReferencedIds : EventKind(id) = "object"}
        /\ (/\ jsonl_files = <<<<TwoEventMarket>>>>
            /\ EventKind(<<"2">>) = "missing" /\ EventKind(<<"1">>) = "object")
              => /\ Len(market_tsv) = 2
                 /\ market_tsv[2][3] = <<"2", ",", "1">>
                 /\ Tail(event_tsv) = <<event_row_values(EventBody(<<"1">>))>>

\* A cell free of the characters that break a row.
CleanCell(c) == \A i \in DOMAIN c : c[i] \notin {Tab, Newline, Return}

\* The rows of every table written so far, header rows included.
WrittenRows ==
    Range(market_tsv) \cup Range(event_tsv)
        \cup UNION {Range(timeseries[id]) : id \in DOMAIN timeseries}

\* Values a field can hold: null, a number, a numeral, a flag, and every string
\* of at most two of the five characters.
FieldValues ==
    {Null, Num(1), Str(2), Bool(TRUE)}
        \cup {Chars(s) : s \in Histories({Tab, Newline, Return, Space, Letter}, 2)}

\* C27: every cell of every row written to the market table, the event table
\* and the timeseries tables is free of tab, newline and carriage return and
\* is a value sanitize_value returns unchanged; sanitize_value gives the empty
\* string for None, never returns one of the three characters, and applied to
\* its own result returns it unchanged.
C27_CellsSanitized ==
    /\ \A row \in WrittenRows : \A i \in DOMAIN row :
          /\ CleanCell(row[i])
          /\ sanitize_value(Chars(row[i])) = row[i]
    /\ sanitize_value(Null) = <<>>
    /\ \A v \in FieldValues :
          /\ CleanCell(sanitize_value(v))
          /\ sanitize_value(Chars(sanitize_value(v))) = sanitize_value(v)

\* A run ended in which a question holding the three characters was written to
\* the market table and a history entry holding them to a timeseries table.
C27_Witness ==
    /\ prog = "process" /\ pc = "done"
    /\ \E i \in DOMAIN market_tsv : market_tsv[i][2] = <<Letter, Space, Space, Space>>
    /\ \E id \in DOMAIN timeseries : \E i \in DOMAIN timeseries[id] :
          timeseries[id][i] = <<<<Space>>, <<Space, Letter, Space>>>>

\* A line that is a market: it parses to a JSON object.
WellFormed(line) == line.kind = "object"

\* C28: a malformed line or event file costs only that unit. Whatever the
\* other lines and files are: extract_unique_event_ids returns the event ids
\* of every well-formed line, save_individual_markets writes the file of every
\* well-formed line with an id, and when create_market_and_event_tsvs has
\* returned the market table holds the row of every well-formed line.
C28_OnlyTheUnitIsSkipped ==
    LET good == SelectSeq(Flatten(jsonl_files), WellFormed)
    IN  /\ \A k \in DOMAIN event_ids : \A i \in DOMAIN good :
              Range(current_event_ids(good[i])) \subseteq event_ids[k]
        /\ (prog = "process" /\ pc # "start" /\ ~cfg.skip_task1 /\ cfg.market_data_dir) =>
              \A i \in DOMAIN good :
                  TruthyId(good[i].id) => PyStr(good[i].id) \in saved_markets
        /\ JoinDone =>
              \A i \in DOMAIN good :
                  \E r \in DOMAIN Tail(market_tsv) :
                      /\ Tail(market_tsv)[r][1] = FieldCell(good[i], good[i].id)
                      /\ Tail(market_tsv)[r][3] = CommaJoin(current_event_ids(good[i]))

\* C29: a missing input directory is reported before any work of the run: at
\* the step in which a task reports it, the run has read no input, created no
\* directory and written no output file.
C29_ConfigErrorBeforeWork ==
    [][config_errors' # config_errors => work' = {}]_vars

\* The stubs of a line whose id extract_unique_event_ids is to return: the
\* dicts with an "id" inside a list-valued "events" of a line that parses.
IdStubs(line) ==
    IF line.kind = "object" /\ line.events.k = "list"
    THEN {line.events.v[i] : i \in {j \in DOMAIN line.events.v :
                                       /\ line.events.v[j].dict
                                       /\ line.events.v[j].id.k # "absent"}}
    ELSE {}

\* The string-normalized ids of the event stubs of all lines of the directory.
StubIdsOfDirectory ==
    IF cfg.market_data_dir
    THEN UNION {{PyStr(s.id) : s \in IdStubs(Flatten(jsonl_files)[i])} :
                   i \in DOMAIN Flatten(jsonl_files)}
    ELSE {}

\* Every call of the extractors so far returned what the first call returned,
\* and extract_unique_event_ids returned the ids of all stubs.
ExtractorsAgree ==
    prog = "extract" =>
        /\ \A k \in DOMAIN event_ids : event_ids[k] = StubIdsOfDirectory
        /\ \A k \in DOMAIN offsets : offsets[k] = offsets[1]

Aggregate ==
    <<success_count, error_count, fetch_error_count, save_error_count,
      fetch_errors, save_errors>>

\* The ids of the items whose units of work ended with one of the statuses.
IdsEnded(statuses) == {ItemId(tasks[i].item) : i \in Ended(statuses)}

\* The summary is the reduction of the outcomes the units of work ended with,
\* whatever the order in which the futures completed and were collected.
SummaryIsReduction ==
    (Pool /\ pc = "summary") =>
        /\ success_count = Cardinality(Ended({"success"}))
        /\ SummaryFetchErrors = Cardinality(Ended({"fetch_error", "raised"}))
        /\ SummarySaveErrors = Cardinality(Ended({"save_error"}))
        /\ Range(fetch_errors) = IdsEnded({"fetch_error", "raised"})
        /\ Range(save_errors) = IdsEnded({"save_error"})

\* What a unit of work ends with is decided by its own fetch and its own file
\* operations, not by where the other workers are: a unit that has written its
\* temporary file still finds it when it renames it.
OutcomeIsOwn ==
    Pool => \A i \in DOMAIN tasks :
                tasks[i].pc = "rename" => Exists(dir, TempName(tasks[i].key))

\* C31: in both parallel fetchers the counters and the retry lists change only
\* in a step of the driver that collects a completed future (or when the script
\* is started again), never in a step of a worker; the summary is the reduction
\* of the units' outcomes, and for every interleaving and completion order of
\* the workers the final counts and the sets of failed IDs are the same: no
\* unit's outcome depends on what another worker did meanwhile.
C31_OrderIndependent ==
    /\ [][Aggregate' # Aggregate => (collected' # collected \/ run' # run)]_vars
    /\ []SummaryIsReduction
    /\ []OutcomeIsOwn

\* The units of work of the run for one id.
UnitsOf(id) == {i \in DOMAIN tasks : ItemId(tasks[i].item) = id}

\* The ids a run on directory d would fetch, for one order of the input.
WouldFetch(items, d) ==
    LET p == Phase2Filter(items, d) IN {ItemId(p[i]) : i \in DOMAIN p}

WithoutTemp(d, k) == [n \in DOMAIN d \ {TempName(k)} |-> d[n]]

\* What one completed put of content c under key k leaves of directory d: the
\* final file holds c in full, the temporary file is gone, the rest is as it was.
PutResult(d, k, c) ==
    [n \in (DOMAIN d \ {TempName(k)}) \cup {FinalName(k)} |->
        IF n = FinalName(k) THEN Complete(c) ELSE d[n]]

\* C33: a save function called again with the id and the content of a call
\* that succeeded is a no-op on the store: the first call leaves the final file
\* with the content in full and no temporary file; every step of the second
\* call changes nothing but the temporary file, its rename replaces the final
\* file by an equal one, and when it has returned True the files and their
\* contents are those the first call left (PutResult applied twice is
\* PutResult applied once).
C33_PutTwiceIsNoOp ==
    /\ [](\A i \in DOMAIN tasks :
            (tasks[i].pc = "done" /\ tasks[i].status = "success") =>
                /\ ~Exists(dir, TempName(tasks[i].key))
                /\ Exists(dir, FinalName(tasks[i].key))
                /\ dir = PutResult(dir, tasks[i].key, tasks[i].tok)
                /\ PutResult(PutResult(dir, tasks[i].key, tasks[i].tok),
                             tasks[i].key, tasks[i].tok) = dir)
    /\ [][\A i \in DOMAIN tasks \cap DOMAIN tasks' :
            LET k == tasks[i].key IN
            /\ (tasks[i].pc = "rename" /\ tasks'[i].status = "success") =>
                   dir' = PutResult(dir, k, tasks[i].tok)
            /\ (prev_ok /\ run' = run) =>
                   WithoutTemp(dir', k) = WithoutTemp(dir, k)]_vars

\* The second of two calls that both returned True, on a final file that held
\* other content before the first.
C33_Witness ==
    /\ run = 2 /\ prev_ok /\ prog = "prices"
    /\ tasks[1].pc = "done" /\ tasks[1].status = "success"
    /\ tasks[1].tok # tasks[1].key
    /\ dir[FinalName(tasks[1].key)] = Complete(tasks[1].tok)

\* The ids of the input the run skipped as already downloaded.
SkippedIds == {ItemId(x) : x \in ItemsOf(input)} \ PendingIds

\* C34: while a run of a per-ID fetcher works through its pending list, the
\* output file of every ID it skipped as already downloaded stays as it was:
\* no step writes, replaces or deletes it, whatever the upstream answers.
C34_SkippedFilesUntouched ==
    [][(Pool /\ pc = "running") =>
          \A id \in SkippedIds :
              /\ Exists(dir', IdName(id))
              /\ dir'[IdName(id)] = dir[IdName(id)]]_vars

\* The join is about to read a line that parses to a market or to a false value.
AtMarketLine ==
    /\ prog = "process" /\ pc = "join" /\ file_idx <= Len(jsonl_files)
    /\ jsonl_files[file_idx][line_num].kind \in {"object", "falsy"}

\* The id of the market of the line the join is about to read.
LineMarketId == market_id_of(jsonl_files[file_idx][line_num])

\* The price-history cell of a market row, as written.
FlagIsTrue(row) == row[Len(row)] = <<"T", "r", "u", "e">>
FlagIsFalse(row) == row[Len(row)] = <<"F", "a", "l", "s", "e">>

\* The file keyed by the market id exists, parses as a JSON object and holds a
\* non-empty history list.
GoodPriceFile(id) ==
    /\ PriceKind(id) = "object"
    /\ price_history[id].history # <<>>

\* The iteration writes one market row, whose flag is True exactly for a good
\* price file and False otherwise.
RowWithFlag ==
    /\ Len(market_tsv') = Len(market_tsv) + 1
    /\ IF GoodPriceFile(LineMarketId)
       THEN FlagIsTrue(Last(market_tsv'))
       ELSE FlagIsFalse(Last(market_tsv'))

C36_SuccessMeansDownloaded ==
    [][Pool =>
          \A i \in DOMAIN tasks \cap DOMAIN tasks' :
              (tasks[i].status # "success" /\ tasks'[i].status = "success") =>
                  AlreadyDownloaded(dir', ItemId(tasks'[i].item))]_vars

\* The first k offsets of the pagination.
Prefix(k) == {i * limit : i \in 0..(k - 1)}

\* The offsets counted by the watermark are a gap-free prefix, each with its
\* complete batch file, and the watermark is the offset behind them.
WatermarkIsPrefix ==
    LET counted == CountedOffsets(dir)
    IN  /\ counted = Prefix(Cardinality(counted))
        /\ \A o \in counted :
              /\ Exists(dir, BatchName(o, limit))
              /\ dir[BatchName(o, limit)] = Complete(o)
        /\ get_starting_offset(dir, limit) = Cardinality(counted) * limit

\* C37: starting from an empty output directory, with one page size, whenever a
\* run of the paginated fetcher is over (done, fetch error, save error or a
\* kill at any step) and whenever the next one starts, the offsets counted by
\* the watermark are a gap-free prefix 0, L, ..., (k-1)L, each of them has a
\* complete batch file, and the watermark is kL: it is never past an offset
\* whose page was not fully persisted.
C37_WatermarkIsPrefix ==
    (prog = "markets" /\ (Over \/ pc = "start")) => WatermarkIsPrefix

\* A run in which every pending ID was fetched and saved has reported its
\* summary, and the script can be started again.
AllSucceeded == Pool /\ pc = "summary" /\ AllSuccess /\ run < MaxRuns

\* A later run found nothing pending and exited before the pool.
NothingPending == Pool /\ run > 1 /\ pc = "exit"

\* The next run on this directory fetches no ID the run that is over did not.
PendingNeverGrows ==
    (Pool /\ pc \in {"summary", "killed", "exit"}) =>
        \A items \in InputSeqs : WouldFetch(items, dir) \subseteq PendingIds

\* A run that follows a run with nothing pending has nothing pending.
EmptyStaysEmpty ==
    (Pool /\ run > 1 /\ prev_end = "exit" /\ pc # "start") => pc = "exit"

====
